---- MODULE Spec2Model ----
(***************************************************************************)
(* Pack synchronisation and lifecycle engine of nonebot-plugin-meme-stickers*)
(* (sticker_pack/update.py, sticker_pack/manager.py).                       *)
(*                                                                          *)
(* The data directory, the remote sources, the manager's in-memory list and *)
(* the coroutines of the asyncio event loop are the state.  A coroutine     *)
(* runs without interruption between two awaits: `running` names the call   *)
(* that holds the loop inside a synchronous stretch that is modelled in     *)
(* several steps (so that each step of it can raise), and is Idle when      *)
(* every coroutine is suspended.                                            *)
(*                                                                          *)
(* The specifications share the actions:                                    *)
(*   Spec      two Manager operations may overlap, each on one slug;        *)
(*   SpecSolo  one Manager operation at a time, whose batch may name the    *)
(*             same slug twice; commands run between operations, and        *)
(*             handlers keep references to packs.                           *)
(*   SpecBatch one Manager operation at a time over several slugs, one of   *)
(*             them absent from the hub; between operations files of the    *)
(*             data directory are damaged from outside.                     *)
(*   SpecRace  overlapping Manager.update(force=False) calls while the      *)
(*             publisher goes on releasing versions.                        *)
(*   SpecAdmin two packs are installed; enable/disable, delete, reload and  *)
(*             update commands run on them, and removals and writes of the  *)
(*             data directory may be refused.                               *)
(*   SpecCancel an install whose caller is cancelled during a download.     *)
(*   SpecFetch the download tasks of two overlapping operations: permits,   *)
(*             attempts, sleeps and the join; SpecFetchFair adds that every *)
(*             attempt and every sleep ends.                                *)
(*   SpecMerge one pack object, over the default_config of its manifest and *)
(*             the contents of its config.json: reads of merged_config.     *)
(*   SpecConfig one pack object whose files are edited and which is         *)
(*             reloaded, saved, enabled and disabled.                       *)
(*   SpecTree  the removal of the files a new manifest no longer references *)
(*             and of the folders that this leaves empty.                   *)
(*   SpecRecover one installed pack, one update at a time; the process may  *)
(*             end at any step and is started again.                        *)
(***************************************************************************)
EXTENDS Integers, Sequences, FiniteSets, TLC

\* ------------------------------------------------------------------ bounds
\* the publisher releases versions 1..MaxVersion of a pack
MaxVersion == 2
\* the publisher releases versions 1..MaxRaceVersion in SpecRace
MaxRaceVersion == 3

Slugs == {"a", "b", "c"}
\* the order in which base_path.iterdir() lists the pack directories
SlugOrder == <<"a", "b", "c">>
\* the slugs of the hub manifest
HubSlugs == {"a", "b"}
\* the slugs whose publisher releases new versions
ReleasingSlugs == {"a"}
\* the slugs whose assets get damaged on disk, and those whose config.json
\* the user edits by hand
DamagedSlugs == {"b"}
EditedSlugs == {"a"}
OpIds == {1, 2}
\* the download tasks of one operation
FetchIds == {1, 2}
\* config.retry_times is one of 0..MaxRetryTimes
MaxRetryTimes == 3
\* config.req_concurrency (config.py 22 has 8), the permits of a semaphore
req_concurrency == 1
ItemIds == {1, 2}
InstallBatches == {<<"a">>}
SoloBatches == {<<"a">>, <<"a", "a">>}
UpdateSelections == {{"a"}}
\* Manager.update(packs=None) selects every slug
AllSlugs == Slugs
BatchInstalls == {<<"a", "b">>, <<"a", "c">>, <<"a", "a">>}
BatchSelections == {{"a"}, AllSlugs}
CancelInstalls == {<<"a", "b">>}
\* the queries of an enable / disable command
ToggleBatches == {<<"Beta", "B">>, <<"x">>}

\* ------------------------------------------------------- files and remote
MANIFEST_FILENAME == "manifest.json"
CONFIG_FILENAME == "config.json"
UPDATING_FLAG_FILENAME == ".updating"

AssetNames == <<"f1", "f2", "f3", "f4", "f5">>
Assets == {AssetNames[k] : k \in 1..(MaxRaceVersion + 1)}
FileNames == Assets \cup {MANIFEST_FILENAME, CONFIG_FILENAME, UPDATING_FLAG_FILENAME}

\* the asset paths the manifest of version v references: each release drops
\* the oldest asset and adds a new one
collect_manifest_files(v) == {AssetNames[v], AssetNames[v + 1]}

\* the bytes the source serves for an asset of version v (every release
\* changes the bytes of the asset it keeps); 0 stands for "no such file"
RemoteContent(v, f) == v

\* sha256 of the bytes: distinct bytes, distinct digests
calc_checksum(data) == 100 + data

NoSource == [type |-> "none", url |-> ""]
HubSource(slug) == [type |-> "url", url |-> slug]

\* models.py 146-150, StickerPackConfig as config.json stores it; commands and
\* extend_commands: 0 is the default (empty) list, 1 a list the user wrote
DefaultConfig == [exists |-> TRUE, update_source |-> NoSource, disabled |-> FALSE,
                  commands |-> 0, extend_commands |-> 0]
NoConfig == [exists |-> FALSE, update_source |-> NoSource, disabled |-> FALSE,
             commands |-> 0, extend_commands |-> 0]

NoFiles == [f \in Assets |-> 0]
\* broken: config.json does not validate as a StickerPackConfig
NoDir == [dir |-> FALSE, flag |-> FALSE, manifest |-> 0, config |-> NoConfig,
          files |-> NoFiles, broken |-> FALSE]

EmptyInfo == [succeed |-> <<>>, skipped |-> <<>>, failed |-> <<>>]

Idle == <<0, 0>>

NoCall == [slug |-> "", source |-> NoSource, pc |-> "none", manifest |-> 0,
           toDl |-> {}, toMove |-> {}, toRm |-> {}]

\* sel: the packs argument of Manager.update; cand: the slugs of will_update
\* as Manager.update first computed it
IdleOp == [kind |-> "idle", pc |-> "idle", force |-> FALSE, will |-> <<>>,
           batch |-> <<>>, items |-> <<>>, info |-> EmptyInfo, cand |-> {},
           sel |-> {}]

\* reloads, hooks: how many times the step ran Manager.reload and how many
\* times it invoked each reload hook
\* queries, inc, found, target: the queries and include_unavailable of a
\* lookup, the slug of the pack it found, and the state enable/disable asked for
\* notified: the slugs of the pack objects on which the step ran
\* call_callbacks() (an object that the step itself constructs has no
\* callback yet when its constructor runs call_callbacks, pack.py 31, 39-40)
\* value: <<c>> when the step read merged_config and got c
NoEvent == [type |-> "none", clear |-> FALSE, info |-> EmptyInfo, call |-> Idle,
            hasCks |-> FALSE, cks |-> {}, prev |-> {}, cand |-> {}, sel |-> {},
            reloads |-> 0, hooks |-> 0, queries |-> <<>>, inc |-> FALSE,
            found |-> "", target |-> FALSE, notified |-> {}, value |-> <<>>]

\* a reference to a StickerPack object that a handler keeps: idx is the
\* position of the object in StickerPackManager.packs, 0 once it left the list
NoRef == [slug |-> "", ref_outdated |-> FALSE, idx |-> 0, disabled |-> FALSE,
          cache |-> "none"]

\* no Manager.delete is under way; left: the entries rmtree has yet to visit
NoDelete == [slug |-> "", left |-> {}]

\* config.py 21: retry_times
DefaultRetryTimes == 3

\* a fetch_source task that was not started.  n: the number of the attempt
\* it is at; failed: how many of its attempts raised; result: the attempt
\* whose response it returned or whose error it raised
NoTask == [pc |-> "none", n |-> 0, failed |-> 0, result |-> <<"none", 0>>]

\* no fetch was started; gathers: the asyncio.gather of each operation over
\* its download tasks
NoNet == [retry_times |-> DefaultRetryTimes,
          tasks |-> [o \in OpIds |-> [t \in FetchIds |-> NoTask]],
          gathers |-> [o \in OpIds |-> "none"]]

\* ------------------------------------------------- StickerPackConfig
\* a field of a pydantic model: set tells whether the field is in
\* model_fields_set (what exclude_unset=True keeps), v is its value
Unset(default) == [set |-> FALSE, v |-> default]
Given(value) == [set |-> TRUE, v |-> value]

\* models.py 82-84, FileSourceURL, or None (null = TRUE)
NullSource == [null |-> TRUE, type |-> Unset("url"), url |-> Unset("")]
UrlSource(type, url) == [null |-> FALSE, type |-> type, url |-> Given(url)]

\* models.py 146-150: StickerPackConfig() with no field given
EmptyConfig ==
    [update_source |-> Unset(NullSource), disabled |-> Unset(FALSE),
     commands |-> Unset(<<>>), extend_commands |-> Unset(<<>>)]

\* the configs that a manifest.json declares as default_config (marked "d")
\* and those that a config.json holds (marked "l")
ConfigsOf(mark) ==
    [update_source : {Unset(NullSource), Given(NullSource),
                      Given(UrlSource(Unset("url"), mark)),
                      Given(UrlSource(Given("url"), mark))},
     disabled : {Unset(FALSE), Given(FALSE), Given(TRUE)},
     commands : {Unset(<<>>), Given(<<mark>>)},
     extend_commands : {Unset(<<>>), Given(<<mark>>)}]

\* the configs that set at most the field disabled
SwitchConfigs ==
    {[EmptyConfig EXCEPT !.disabled = x] : x \in {Unset(FALSE), Given(FALSE), Given(TRUE)}}

\* a StickerPack object (pack.py 23-40) and the two files it reads and
\* writes: manifest_file and config_file are manifest.json's default_config
\* and config.json, manifest and config are self.manifest.default_config and
\* self.config, cache is _cached_merged_config (<<>> is None, <<c>> holds c)
NoObject ==
    [manifest_file |-> EmptyConfig, config_file |-> EmptyConfig,
     manifest |-> EmptyConfig, config |-> EmptyConfig, cache |-> <<>>]

\* ------------------------------------------------------- directory tree
\* the paths under one pack path, as sequences of names: the folders and
\* the asset files an update may find there
TreeDirs == {<<"x">>, <<"x", "y">>, <<"z">>}
TreeFiles == {<<"h">>, <<"x", "g">>, <<"x", "y", "f">>, <<"z", "k">>}
Parent(p) == SubSeq(p, 1, Len(p) - 1)

\* no update is at the end of its flag context.  dirs, files: the folders
\* and asset files present; toRm: files_should_remove of the update; pc:
\* "start" before update.py 164, "done" after update.py 182
NoTree == [dirs |-> {}, files |-> {}, toRm |-> {}, pc |-> "none"]

VARIABLES
    disk,       \* slug -> the pack directory: dir, .updating, manifest.json, config.json, assets
    remote,     \* slug -> version of the manifest its source serves
    packs,      \* StickerPackManager.packs
    ops,        \* op id -> a running Manager.install / Manager.update coroutine
    running,    \* the call that holds the event loop, or Idle
    ev,         \* what the last step returned to its caller (prev: prevUpd at that time)
    stale,      \* slug -> a call left its flag behind by raising, and the flag is still there
    prevUpd,    \* the slugs the Manager.update that returned last updated, while nothing
                \* else has run since
    root,       \* the data directory (StickerPackManager.base_path) exists
    held,       \* the StickerPack reference a handler obtained from the manager and keeps
    del,        \* the Manager.delete call that is inside shutil.rmtree
    net,        \* the fetch layer: retry_times, the fetch tasks and the gathers awaiting them
    pk,         \* one StickerPack object with its manifest.json and config.json
    tree        \* the directories and files under one pack path

vars == <<disk, remote, packs, ops, running, ev, stale, prevUpd, root, held, del, net,
          pk, tree>>

\* ------------------------------------------------------------- helpers
RECURSIVE SeqToSet(_)
SeqToSet(s) == IF s = <<>> THEN {} ELSE {Head(s)} \cup SeqToSet(Tail(s))

Terminal_Any(pc) == TRUE

\* the task of a batch has returned (asyncio.gather waits for all of them)
Terminal(pc) == pc \in {"done", "failed"}

\* a call is between its flag_path.touch() and its flag_path.unlink()
InFlagCtx(pc) == pc \in {"downloading", "move", "remove", "manifest", "config", "unflag"}

Calls == {c \in OpIds \X ItemIds : c[2] <= Len(ops[c[1]].items)}
CallOf(c) == ops[c[1]].items[c[2]]

AllIdle == \A o \in OpIds : ops[o].kind = "idle"

\* a new coroutine takes the lowest free op id
FreeOp(o) == ops[o].kind = "idle" /\ \A q \in OpIds : q < o => ops[q].kind # "idle"

\* ------------------------------------------------------------ update.py
\* path.rglob("*") restricted to files
ListFiles(d) ==
    IF ~d.dir THEN {}
    ELSE {f \in Assets : d.files[f] # 0}
         \cup (IF d.flag THEN {UPDATING_FLAG_FILENAME} ELSE {})
         \cup (IF d.manifest # 0 THEN {MANIFEST_FILENAME} ELSE {})
         \cup (IF d.config.exists THEN {CONFIG_FILENAME} ELSE {})

collect_local_files_NoIgnore(d) == ListFiles(d)

\* update.py 45-58 (and line 84: [] when the directory does not exist)
collect_local_files(d) == ListFiles(d) \ {MANIFEST_FILENAME, CONFIG_FILENAME}

FlagExists_Never(d) == FALSE

\* update.py line 70
FlagExists(d) == d.flag

files_should_download_OnlyMissing(d, v, hasCks, cks) ==
    collect_manifest_files(v) \ collect_local_files(d)

files_should_download_SkipMissing(d, v, hasCks, cks) ==
    LET local_files_set == collect_local_files(d)
        remote_files_set == collect_manifest_files(v)
    IN  (remote_files_set \ local_files_set) \cup
        {x \in local_files_set \cap remote_files_set :
            IF hasCks /\ cks # {}
            THEN x \in cks /\ calc_checksum(RemoteContent(v, x)) # calc_checksum(d.files[x])
            ELSE TRUE}

\* update.py 88-105: the set of files to download.  cks is the key set of the
\* checksum map (its values are the digests of what the source serves), hasCks
\* tells whether fetch_optional_checksum returned a map at all.
files_should_download(d, v, hasCks, cks) ==
    LET local_files_set == collect_local_files(d)
        remote_files_set == collect_manifest_files(v)
        not_in_local == remote_files_set \ local_files_set
        file_both_exist == local_files_set \cap remote_files_set
        get(x) == IF x \in cks THEN calc_checksum(RemoteContent(v, x)) ELSE -1
    IN  IF hasCks /\ cks # {}
        THEN not_in_local \cup
             {x \in file_both_exist : get(x) # calc_checksum(d.files[x])}
        ELSE not_in_local \cup file_both_exist

files_should_remove_Nothing(d, v) == {}

\* update.py 164
files_should_remove(d, v) == collect_local_files(d) \ collect_manifest_files(v)

EnterFlagCtx_Clean(d) == [NoDir EXCEPT !.dir = TRUE, !.flag = TRUE]

\* update.py 110-114: entering update_flag_file_ctx
EnterFlagCtx(d) == [d EXCEPT !.dir = TRUE, !.flag = TRUE]

ExitFlagCtx_Keep(d) == d

\* update.py 116: leaving update_flag_file_ctx without an exception
ExitFlagCtx(d) == [d EXCEPT !.flag = FALSE]

TailPc_ManifestFirst(toMove, toRm) == "manifest"

\* the stage of the synchronous tail of update_sticker_pack (update.py
\* 145-190) a call is in, given what is left to move and to remove
TailPc(toMove, toRm) ==
    IF toMove # {} THEN "move" ELSE IF toRm # {} THEN "remove" ELSE "manifest"

FileExists(d, f) ==
    IF f = UPDATING_FLAG_FILENAME THEN d.flag
    ELSE IF f = MANIFEST_FILENAME THEN d.manifest # 0
    ELSE IF f = CONFIG_FILENAME THEN d.config.exists
    ELSE d.dir /\ d.files[f] # 0

\* Path.unlink()
Unlink(d, f) ==
    IF f = UPDATING_FLAG_FILENAME THEN [d EXCEPT !.flag = FALSE]
    ELSE IF f = MANIFEST_FILENAME THEN [d EXCEPT !.manifest = 0]
    ELSE IF f = CONFIG_FILENAME THEN [d EXCEPT !.config = NoConfig]
    ELSE [d EXCEPT !.files[f] = 0]

\* update.py 185-188 with sticker_pack.py 46-63: StickerPack(base_path,
\* manifest) writes manifest.json, then reads config.json or writes a default one
SaveManifest(d, v) ==
    [d EXCEPT !.manifest = v, !.config = IF @.exists THEN @ ELSE DefaultConfig]

SaveConfig_Fresh(d, source) ==
    [d EXCEPT !.config = [DefaultConfig EXCEPT !.update_source = source],
              !.broken = FALSE]

\* update.py 189-190: config.update_source = source; save_config()
SaveConfig(d, source) ==
    [d EXCEPT !.config = [@ EXCEPT !.exists = TRUE, !.update_source = source],
              !.broken = FALSE]

\* ----------------------------------------------------------- manager.py
ReloadSkips_Never(d, clear_updating_flags) == FALSE

\* manager.py 76-80: a directory whose flag is present is skipped unless the
\* caller asked to clear flags
ReloadSkips(d, clear_updating_flags) == d.flag /\ ~clear_updating_flags

\* manager.py 85, StickerPack(path): reads manifest.json and config.json
\* (pack.py 33-37); disabled, commands, extend_commands: the fields of
\* self.config; cache: _cached_merged_config, "none" or the disabled value of
\* the merged config it holds
LoadPack(slug, d) ==
    [slug |-> slug, version |-> d.manifest,
     source |-> IF d.config.exists THEN d.config.update_source ELSE NoSource,
     ref_outdated |-> FALSE,
     disabled |-> d.config.exists /\ d.config.disabled,
     commands |-> IF d.config.exists THEN d.config.commands ELSE 0,
     extend_commands |-> IF d.config.exists THEN d.config.extend_commands ELSE 0,
     cache |-> "none"]

LoadFails_Never(d) == FALSE

\* pack.py 102-113: reload_config raises when config.json does not validate
LoadFails(d) == d.config.exists /\ d.broken

MarkOutdated_Noop(p) == p

\* manager.py 59 / 260: x.ref_outdated = True (the flag that pack.py 68-70
\* reads back as StickerPack.ref_outdated)
MarkOutdated(p) == [p EXCEPT !.ref_outdated = TRUE]

\* manager.py 58-59
MarkAll(ps) == [k \in 1..Len(ps) |-> MarkOutdated(ps[k])]

\* manager.py 60: self.packs.clear()
ClearList(ps) == <<>>

\* manager.py 53-55: every registered hook is called once more
CallReloadHooks(n) == n + 1

IsCandidate_AnyDir(d) == d.dir

\* manager.py 69-73: the directories that hold a manifest.json
IsCandidate(d) == d.dir /\ d.manifest # 0

\* manager.py 57-96, the scan; yields the new list, the new disk and the OpInfo
RECURSIVE ReloadScan(_, _, _, _, _)
ReloadScan(i, clear, dk, ps, info) ==
    IF i > Len(SlugOrder) THEN [packs |-> ps, disk |-> dk, info |-> info]
    ELSE LET s == SlugOrder[i]
             d == dk[s]
         IN  IF ~IsCandidate(d) THEN ReloadScan(i + 1, clear, dk, ps, info)
             ELSE IF ReloadSkips(d, clear)
             THEN ReloadScan(i + 1, clear, dk, ps,
                             [info EXCEPT !.skipped = Append(@, <<s, "updating">>)])
             ELSE IF LoadFails(d)
             THEN ReloadScan(i + 1, clear, [dk EXCEPT ![s].flag = FALSE], ps,
                             [info EXCEPT !.failed = Append(@, <<s, "load_error">>)])
             ELSE LET d2 == [d EXCEPT !.flag = FALSE,
                                      !.config = IF @.exists THEN @ ELSE DefaultConfig]
                  IN  ReloadScan(i + 1, clear, [dk EXCEPT ![s] = d2],
                                 Append(ps, LoadPack(s, d2)),
                                 [info EXCEPT !.succeed = Append(@, s)])

\* manager.py 57-96 on the list ps and the disk dk: the packs of ps are
\* marked and dropped; without a data directory nothing is scanned and no
\* hook is called (64-66)
reload(clear, dk) ==
    LET cleared == ClearList(MarkAll(packs))
    IN  IF ~root
        THEN [packs |-> cleared, disk |-> dk, info |-> EmptyInfo, hooks |-> 0]
        ELSE LET r == ReloadScan(1, clear, dk, cleared, EmptyInfo)
             IN  [packs |-> r.packs, disk |-> r.disk, info |-> r.info,
                  hooks |-> CallReloadHooks(0)]

\* the reference a handler keeps, after manager.py 58-59 or 260 ran on the list
HeldAfterReload ==
    IF held.idx = 0 THEN held
    ELSE [slug |-> held.slug, ref_outdated |-> MarkOutdated(packs[held.idx]).ref_outdated,
          idx |-> 0, disabled |-> packs[held.idx].disabled,
          cache |-> packs[held.idx].cache]

InvalidateCache_Keep(p) == p

\* pack.py 103 / 138: self._cached_merged_config = None
InvalidateCache(p) == [p EXCEPT !.cache = "none"]

\* pack.py 121-135: merged_config builds the merged config when the cache is
\* empty and keeps it (the manifests of these packs set no default_config)
FillCache(p) ==
    [p EXCEPT !.cache = IF @ = "none" THEN (IF p.disabled THEN "on" ELSE "off") ELSE @]

\* pack.py 121-135: merged_config.disabled as the object p answers it
MergedDisabled(p) == FillCache(p).cache = "on"

Unavailable_NoMarker(p) ==
    MergedDisabled(p) \/ p.ref_outdated \/ disk[p.slug].manifest = 0

\* pack.py 60-66, 72-79: StickerPack.unavailable
Unavailable(p) ==
    MergedDisabled(p) \/ p.ref_outdated \/ disk[p.slug].flag \/ disk[p.slug].manifest = 0

\* ---------------------------------------------------------------- lookup
\* manifest.name of the pack of each slug
ManifestName == [s \in Slugs |-> IF s = "a" THEN "B" ELSE IF s = "b" THEN "Beta" ELSE "C"]

\* what a user types as a pack query
Queries == {"B", "Beta", "x"}

\* str.lower on the strings above
Lower(q) ==
    IF q = "B" THEN "b" ELSE IF q = "Beta" THEN "beta" ELSE IF q = "C" THEN "c" ELSE q

\* the result of a lookup that finds nothing (None)
NoPack == [LoadPack("", NoDir) EXCEPT !.version = 0]

\* manager.py 45-47
available_packs ==
    LET Test(x) == ~Unavailable(x)
    IN  SelectSeq(packs, Test)

\* manager.py 103: the list a lookup scans
ScannedPacks(include_unavailable) ==
    IF include_unavailable THEN packs ELSE available_packs

\* manager.py 104: next((x for x in packs if checker(x)), None)
FirstOf(hits) == IF hits = <<>> THEN NoPack ELSE Head(hits)

\* manager.py 106-114
find_pack_by_slug(slug, include_unavailable) ==
    LET checker(x) == x.slug = slug
    IN  FirstOf(SelectSeq(ScannedPacks(include_unavailable), checker))

\* manager.py 116-125
find_pack(query, include_unavailable) ==
    LET checker(x) == \/ Lower(x.slug) = Lower(query)
                      \/ Lower(ManifestName[x.slug]) = Lower(query)
    IN  FirstOf(SelectSeq(ScannedPacks(include_unavailable), checker))

\* the position of the object p in StickerPackManager.packs, 0 when absent
IndexOf(p) ==
    IF \E k \in 1..Len(packs) : packs[k].slug = p.slug
    THEN CHOOSE k \in 1..Len(packs) : packs[k].slug = p.slug
    ELSE 0

\* the ghost `stale` after a step that leaves disk nd and in which the calls
\* on the slugs in raised left their flag context by an exception
StaleAfter(nd, raised) == [s \in Slugs |-> nd[s].flag /\ (stale[s] \/ s \in raised)]

EndItem_Unrecorded(o, i, pcv, field, entry) ==
    [ops EXCEPT ![o].items[i] = [NoCall EXCEPT !.slug = ops[o].items[i].slug, !.pc = pcv]]

\* an item of a batch ends: its record is cleared and its outcome appended
EndItem(o, i, pcv, field, entry) ==
    [ops EXCEPT ![o].items[i] = [NoCall EXCEPT !.slug = ops[o].items[i].slug, !.pc = pcv],
                ![o].info[field] = Append(@, entry)]

\* the first synchronous stretch of update_sticker_pack (update.py 68-81)
StartCall(slug, source, manifest) ==
    [NoCall EXCEPT !.slug = slug, !.source = source, !.manifest = manifest,
                   !.pc = IF manifest = 0 THEN "fetch_manifest" ELSE "fetch_checksum"]

InHub_Always(slug) == TRUE

\* manager.py 230-231: the hub manifest has an entry for the slug
InHub(slug) == slug \in HubSlugs

\* manager.py 224-248, ins(slug) up to its first await, for every slug of the batch
RECURSIVE InsStart(_, _, _, _)
InsStart(batch, i, items, info) ==
    IF i > Len(batch) THEN [items |-> items, info |-> info]
    ELSE LET slug == batch[i]
             d == disk[slug]
         IN  IF d.dir
             THEN InsStart(batch, i + 1,
                           Append(items, [NoCall EXCEPT !.slug = slug, !.pc = "done"]),
                           [info EXCEPT !.failed = Append(@, <<slug, "exists">>)])
             ELSE IF ~InHub(slug)
             THEN InsStart(batch, i + 1,
                           Append(items, [NoCall EXCEPT !.slug = slug, !.pc = "done"]),
                           [info EXCEPT !.failed = Append(@, <<slug, "not_in_hub">>)])
             ELSE IF FlagExists(d)
             THEN InsStart(batch, i + 1,
                           Append(items, [NoCall EXCEPT !.slug = slug, !.pc = "failed"]),
                           [info EXCEPT !.failed = Append(@, <<slug, "is_updating">>)])
             ELSE InsStart(batch, i + 1,
                           Append(items, StartCall(slug, HubSource(slug), 0)), info)

\* ------------------------------------------------------------------ Init
Init ==
    /\ disk = [s \in Slugs |-> NoDir]
    /\ remote = [s \in Slugs |-> 1]
    /\ packs = <<>>
    /\ ops = [o \in OpIds |-> IdleOp]
    /\ running = Idle
    /\ ev = NoEvent
    /\ stale = [s \in Slugs |-> FALSE]
    /\ prevUpd = {}
    /\ root = FALSE
    /\ held = NoRef
    /\ del = NoDelete
    /\ net = NoNet
    /\ pk = NoObject
    /\ tree = NoTree

\* --------------------------------------------------------------- install
\* manager.py 210-220: Manager.install(packs) called by the install command
InstallCall(o, batch) ==
    /\ running = Idle
    /\ FreeOp(o)
    /\ ops' = [ops EXCEPT ![o] = [IdleOp EXCEPT !.kind = "install", !.pc = "fetch_hub",
                                                !.batch = batch]]
    /\ ev' = NoEvent
    /\ prevUpd' = {}
    /\ UNCHANGED <<pk, tree, del, net, disk, remote, packs, running, stale, root, held>>

\* manager.py 220: fetch_hub() raises, and so does install
InstallHubFailed(o) ==
    /\ running = Idle
    /\ ops[o].pc = "fetch_hub"
    /\ ops' = [ops EXCEPT ![o] = IdleOp]
    /\ ev' = [NoEvent EXCEPT !.type = "install_raised"]
    /\ UNCHANGED <<pk, tree, del, net, disk, remote, packs, running, stale, prevUpd, root, held>>

\* manager.py 220-251: the hub arrived; every ins(slug) runs to its first await
InstallHubFetched(o) ==
    /\ running = Idle
    /\ ops[o].pc = "fetch_hub"
    /\ LET r == InsStart(ops[o].batch, 1, <<>>, EmptyInfo)
       IN  ops' = [ops EXCEPT ![o].pc = "gather", ![o].batch = <<>>,
                              ![o].items = r.items, ![o].info = r.info]
    /\ ev' = NoEvent
    /\ UNCHANGED <<pk, tree, del, net, disk, remote, packs, running, stale, prevUpd, root, held>>

\* ---------------------------------------------------- update_sticker_pack
\* update.py 76-78: fetch_manifest(source) answered
CallManifestFetched(o, i) ==
    /\ running = Idle
    /\ i \in 1..Len(ops[o].items)
    /\ ops[o].items[i].pc = "fetch_manifest"
    /\ ops' = [ops EXCEPT ![o].items[i].manifest = remote[ops[o].items[i].slug],
                          ![o].items[i].pc = "fetch_checksum"]
    /\ ev' = NoEvent
    /\ UNCHANGED <<pk, tree, del, net, disk, remote, packs, running, stale, prevUpd, root, held>>

\* update.py 78: fetch_manifest raises; ins() records the failure (manager.py 243-246)
CallManifestFailed(o, i) ==
    /\ running = Idle
    /\ i \in 1..Len(ops[o].items)
    /\ ops[o].items[i].pc = "fetch_manifest"
    /\ ops' = EndItem(o, i, "failed", "failed", <<ops[o].items[i].slug, "fetch_error">>)
    /\ ev' = NoEvent
    /\ UNCHANGED <<pk, tree, del, net, disk, remote, packs, running, stale, prevUpd, root, held>>

\* update.py 81-114: fetch_optional_checksum answered (a map with the keys
\* cks, or None); the diff is computed and the flag context entered.  With
\* nothing to download the call goes on without suspending (update.py 152-153).
CallPlan(o, i, hasCks, cks) ==
    /\ running = Idle
    /\ i \in 1..Len(ops[o].items)
    /\ LET c == ops[o].items[i]
           d == disk[c.slug]
           toDl == files_should_download(d, c.manifest, hasCks, cks)
           toRm == files_should_remove(d, c.manifest)
       IN  /\ c.pc = "fetch_checksum"
           /\ cks \subseteq collect_manifest_files(c.manifest)
           /\ ~hasCks => cks = {}
           /\ disk' = [disk EXCEPT ![c.slug] = EnterFlagCtx(d)]
           /\ ops' = [ops EXCEPT ![o].items[i] =
                        [c EXCEPT !.toDl = toDl, !.toRm = toRm,
                                  !.pc = IF toDl = {} THEN TailPc({}, toRm)
                                         ELSE "downloading"]]
           /\ running' = IF toDl = {} THEN <<o, i>> ELSE Idle
           /\ stale' = StaleAfter(disk', {})
    /\ root' = TRUE
    /\ ev' = [NoEvent EXCEPT !.type = "plan", !.call = <<o, i>>,
                             !.hasCks = hasCks, !.cks = cks]
    /\ UNCHANGED <<pk, tree, del, net, remote, packs, prevUpd, held>>

\* update.py 124-142: every download(path) finished and wrote its staged
\* file; do_update goes on to move them
CallDownloaded(o, i) ==
    /\ running = Idle
    /\ i \in 1..Len(ops[o].items)
    /\ LET c == ops[o].items[i]
       IN  /\ c.pc = "downloading"
           /\ ops' = [ops EXCEPT ![o].items[i] = [c EXCEPT !.toMove = c.toDl, !.pc = "move"]]
    /\ running' = <<o, i>>
    /\ ev' = NoEvent
    /\ UNCHANGED <<pk, tree, del, net, disk, remote, packs, stale, prevUpd, root, held>>

\* a call leaves update_sticker_pack by an exception raised inside the flag
\* context: nothing removes the flag (update.py 109-116 has no finally)
RaiseInCtx(o, i, reason) ==
    /\ ops' = EndItem(o, i, "failed", "failed", <<ops[o].items[i].slug, reason>>)
    /\ running' = Idle
    /\ ev' = NoEvent

\* update.py 126, 142: fetch_source raises in one download; gather re-raises
CallDownloadFailed(o, i) ==
    /\ running = Idle
    /\ i \in 1..Len(ops[o].items)
    /\ ops[o].items[i].pc = "downloading"
    /\ RaiseInCtx(o, i, "fetch_error")
    /\ stale' = StaleAfter(disk, {ops[o].items[i].slug})
    /\ UNCHANGED <<pk, tree, del, net, disk, remote, packs, prevUpd, root, held>>

\* update.py 126, 142 with manager.py 190 / 243: the task of one download is
\* cancelled.  gather re-raises CancelledError into update_sticker_pack, which
\* leaves its flag context without removing the flag; `except Exception` in
\* up() / ins() does not match CancelledError (a BaseException), so the outer
\* gather (manager.py 201 / 251) raises it out of the Manager call.  The
\* other tasks of the batch are not cancelled and run on
CallDownloadCancelled(o, i) ==
    /\ running = Idle
    /\ ops[o].pc = "gather"
    /\ i \in 1..Len(ops[o].items)
    /\ ops[o].items[i].pc = "downloading"
    /\ ops' = [ops EXCEPT ![o].pc = "abandoned",
                          ![o].items[i] = [NoCall EXCEPT !.slug = ops[o].items[i].slug,
                                                         !.pc = "cancelled"]]
    /\ ev' = [NoEvent EXCEPT !.type = "cancelled", !.call = <<o, i>>,
                             !.info = ops[o].info, !.found = ops[o].items[i].slug]
    /\ stale' = StaleAfter(disk, {ops[o].items[i].slug})
    /\ prevUpd' = {}
    /\ UNCHANGED <<pk, tree, disk, remote, packs, running, root, held, del, net>>

\* the tasks that outlived a Manager call that raised have all ended
OrphansDone(o) ==
    /\ running = Idle
    /\ ops[o].pc = "abandoned"
    /\ \A i \in 1..Len(ops[o].items) :
          Terminal(ops[o].items[i].pc) \/ ops[o].items[i].pc = "cancelled"
    /\ ops' = [ops EXCEPT ![o] = IdleOp]
    /\ ev' = NoEvent
    /\ UNCHANGED <<pk, tree, disk, remote, packs, running, stale, prevUpd, root, held, del, net>>

CanRun(o, i) == running = <<o, i>>

\* update.py 145-149: one staged file is moved into the pack directory
CallMove(o, i, f) ==
    /\ CanRun(o, i)
    /\ i \in 1..Len(ops[o].items)
    /\ LET c == ops[o].items[i]
       IN  /\ c.pc = "move"
           /\ f \in c.toMove
           /\ disk' = [disk EXCEPT ![c.slug].dir = TRUE,
                                   ![c.slug].files[f] = RemoteContent(c.manifest, f)]
           /\ ops' = [ops EXCEPT ![o].items[i] =
                        [c EXCEPT !.toMove = @ \ {f},
                                  !.pc = TailPc(c.toMove \ {f}, c.toRm)]]
           /\ running' = <<o, i>>
           /\ stale' = StaleAfter(disk', {})
    /\ root' = TRUE
    /\ ev' = NoEvent
    /\ UNCHANGED <<pk, tree, del, net, remote, packs, prevUpd, held>>

\* update.py 170-171: one file that the manifest no longer references is
\* unlinked; unlink raises FileNotFoundError when the file is gone
CallRemove(o, i, f) ==
    /\ CanRun(o, i)
    /\ i \in 1..Len(ops[o].items)
    /\ LET c == ops[o].items[i]
           d == disk[c.slug]
       IN  /\ c.pc = "remove"
           /\ f \in c.toRm
           /\ IF FileExists(d, f)
              THEN /\ disk' = [disk EXCEPT ![c.slug] = Unlink(d, f)]
                   /\ ops' = [ops EXCEPT ![o].items[i] =
                                [c EXCEPT !.toRm = @ \ {f},
                                          !.pc = TailPc({}, c.toRm \ {f})]]
                   /\ running' = <<o, i>>
                   /\ ev' = NoEvent
                   /\ stale' = StaleAfter(disk', {})
              ELSE /\ RaiseInCtx(o, i, "file_not_found")
                   /\ disk' = disk
                   /\ stale' = StaleAfter(disk, {c.slug})
    /\ UNCHANGED <<pk, tree, del, net, remote, packs, prevUpd, root, held>>

\* update.py 185-188: StickerPack(base_path, manifest) writes manifest.json,
\* then reads config.json, which raises when it does not validate
CallWriteManifest(o, i) ==
    /\ CanRun(o, i)
    /\ i \in 1..Len(ops[o].items)
    /\ LET c == ops[o].items[i]
           d == disk[c.slug]
       IN  /\ c.pc = "manifest"
           /\ IF d.dir /\ LoadFails(d)
              THEN /\ RaiseInCtx(o, i, "load_error")
                   /\ disk' = [disk EXCEPT ![c.slug] = SaveManifest(d, c.manifest)]
                   /\ stale' = StaleAfter(disk', {c.slug})
              ELSE IF d.dir
              THEN /\ disk' = [disk EXCEPT ![c.slug] = SaveManifest(d, c.manifest)]
                   /\ ops' = [ops EXCEPT ![o].items[i].pc = "config"]
                   /\ running' = <<o, i>>
                   /\ ev' = NoEvent
                   /\ stale' = StaleAfter(disk', {})
              ELSE /\ RaiseInCtx(o, i, "file_not_found")
                   /\ disk' = disk
                   /\ stale' = StaleAfter(disk, {c.slug})
    /\ UNCHANGED <<pk, tree, del, net, remote, packs, prevUpd, root, held>>

CallWriteConfig(o, i) ==
    /\ CanRun(o, i)
    /\ i \in 1..Len(ops[o].items)
    /\ LET c == ops[o].items[i]
       IN  /\ c.pc = "config"
           /\ disk' = [disk EXCEPT ![c.slug] = SaveConfig(@, c.source)]
           /\ ops' = [ops EXCEPT ![o].items[i].pc = "unflag"]
    /\ running' = <<o, i>>
    /\ ev' = NoEvent
    /\ stale' = StaleAfter(disk', {})
    /\ UNCHANGED <<pk, tree, del, net, remote, packs, prevUpd, root, held>>

\* update.py 116, then manager.py 195 / 248: the flag is unlinked and the
\* slug recorded as succeeded; unlink raises when the flag is gone
CallRemoveFlag(o, i) ==
    /\ CanRun(o, i)
    /\ i \in 1..Len(ops[o].items)
    /\ LET c == ops[o].items[i]
           d == disk[c.slug]
       IN  /\ c.pc = "unflag"
           /\ IF FlagExists(d)
              THEN /\ disk' = [disk EXCEPT ![c.slug] = ExitFlagCtx(d)]
                   /\ ops' = EndItem(o, i, "done", "succeed", c.slug)
                   /\ running' = Idle
                   /\ ev' = NoEvent
                   /\ stale' = StaleAfter(disk', {})
              ELSE /\ RaiseInCtx(o, i, "file_not_found")
                   /\ disk' = disk
                   /\ stale' = StaleAfter(disk, {})
    /\ UNCHANGED <<pk, tree, del, net, remote, packs, prevUpd, root, held>>

\* a move, an unlink or a write raises OSError
CallRaise(o, i) ==
    /\ CanRun(o, i)
    /\ i \in 1..Len(ops[o].items)
    /\ ops[o].items[i].pc \in {"move", "remove", "manifest", "config"}
    /\ RaiseInCtx(o, i, "os_error")
    /\ stale' = StaleAfter(disk, {ops[o].items[i].slug})
    /\ UNCHANGED <<pk, tree, del, net, disk, remote, packs, prevUpd, root, held>>

\* manager.py 201-208 / 251-257: gather returned; reload(); return opt_info
OpFinish(o) ==
    /\ running = Idle
    /\ ops[o].pc = "gather"
    /\ \A i \in 1..Len(ops[o].items) : Terminal(ops[o].items[i].pc)
    /\ LET r == reload(FALSE, disk)
       IN  /\ packs' = r.packs
           /\ disk' = r.disk
           /\ ev' = [NoEvent EXCEPT !.type = ops[o].kind, !.info = ops[o].info,
                                    !.prev = IF ops[o].kind = "update" THEN prevUpd ELSE {},
                                    !.cand = ops[o].cand,
                                    !.reloads = 1, !.hooks = r.hooks]
    /\ held' = HeldAfterReload
    /\ ops' = [ops EXCEPT ![o] = IdleOp]
    /\ stale' = StaleAfter(disk', {})
    /\ prevUpd' = IF ops[o].kind = "update" /\ (\A q \in OpIds \ {o} : ops[q].kind = "idle")
                  THEN SeqToSet(ops[o].info.succeed) ELSE {}
    /\ UNCHANGED <<pk, tree, del, net, remote, running, root>>

\* ---------------------------------------------------------------- update
WillUpdate_AnySlug(sel) ==
    LET Test(x) == x.source # NoSource /\ ~disk[x.slug].flag
    IN  SelectSeq(packs, Test)

\* manager.py 136-144
WillUpdate(sel) ==
    LET Test(x) == x.slug \in sel /\ x.source # NoSource /\ ~disk[x.slug].flag
    IN  SelectSeq(packs, Test)

SkipsUpdate_Strict(m, local_v, force) == m = 0 \/ (~force /\ m < local_v)

\* manager.py 161-163: the candidate is dropped (m = 0 stands for None)
SkipsUpdate(m, local_v, force) == m = 0 \/ (~force /\ m <= local_v)

\* manager.py 159-170 and the first stretch of every up(p), 180-195
RECURSIVE UpStart(_, _, _, _, _, _)
UpStart(will, ok, force, i, items, info) ==
    IF i > Len(will) THEN [items |-> items, info |-> info]
    ELSE LET p == will[i]
             m == IF p.slug \in ok THEN remote[p.slug] ELSE 0
         IN  IF SkipsUpdate(m, p.version, force)
             THEN UpStart(will, ok, force, i + 1, items,
                          [info EXCEPT !.skipped =
                              Append(@, <<p.slug, IF m # 0 THEN "no_need_to_update"
                                                  ELSE "fetch_manifest_failed">>)])
             ELSE IF FlagExists(disk[p.slug])
             THEN UpStart(will, ok, force, i + 1,
                          Append(items, [NoCall EXCEPT !.slug = p.slug, !.pc = "failed"]),
                          [info EXCEPT !.failed = Append(@, <<p.slug, "is_updating">>)])
             ELSE UpStart(will, ok, force, i + 1,
                          Append(items, StartCall(p.slug, p.source, m)), info)

ReturnsEarly_Never(will_update) == FALSE

\* manager.py 173-175: if not will_update: return opt_info
ReturnsEarly(will_update) == will_update = <<>>

\* manager.py 127-155 (and 173-175 when nothing is selected: gather() of no
\* task does not suspend)
UpdateCall(o, sel, force) ==
    /\ running = Idle
    /\ FreeOp(o)
    /\ LET will == WillUpdate(sel)
       IN  IF ReturnsEarly(will)
           THEN /\ ops' = ops
                /\ ev' = [NoEvent EXCEPT !.type = "update", !.prev = prevUpd, !.sel = sel]
                /\ prevUpd' = {}
           ELSE /\ ops' = [ops EXCEPT ![o] = [IdleOp EXCEPT !.kind = "update",
                                                 !.pc = "fetch_manifests",
                                                 !.force = force, !.will = will,
                                                 !.sel = sel,
                                                 !.cand = {will[k].slug : k \in 1..Len(will)}]]
                /\ ev' = NoEvent
                /\ prevUpd' = IF force \/ ~AllIdle THEN {} ELSE prevUpd
    /\ UNCHANGED <<pk, tree, del, net, disk, remote, packs, running, stale, root, held>>

\* manager.py 153-201: every fetch_optional_manifest answered (ok: the slugs
\* whose manifest arrived)
UpdateManifestsFetched(o, ok) ==
    /\ running = Idle
    /\ ops[o].pc = "fetch_manifests"
    /\ ok \subseteq {ops[o].will[k].slug : k \in 1..Len(ops[o].will)}
    /\ LET r == UpStart(ops[o].will, ok, ops[o].force, 1, <<>>, EmptyInfo)
       IN  IF ReturnsEarly(r.items)
           THEN /\ ops' = [ops EXCEPT ![o] = IdleOp]
                /\ ev' = [NoEvent EXCEPT !.type = "update", !.info = r.info,
                                         !.prev = prevUpd, !.cand = ops[o].cand]
                /\ prevUpd' = {}
           ELSE /\ ops' = [ops EXCEPT ![o].pc = "gather", ![o].force = FALSE,
                                      ![o].will = <<>>, ![o].sel = {},
                                      ![o].items = r.items,
                                      ![o].info = r.info]
                /\ ev' = NoEvent
                /\ prevUpd' = prevUpd
    /\ UNCHANGED <<pk, tree, del, net, disk, remote, packs, running, stale, root, held>>

\* ------------------------------------------------------- reload, delete
\* manager.py 57-96 called by the reload command (handlers/manage.py 106);
\* clear_updating_flags is passed only at startup (__init__.py 36)
ReloadCall(clear) ==
    /\ running = Idle
    /\ clear => AllIdle
    /\ LET r == reload(clear, disk)
       IN  /\ packs' = r.packs
           /\ disk' = r.disk
           /\ ev' = [NoEvent EXCEPT !.type = "reload", !.clear = clear, !.info = r.info,
                                    !.reloads = 1, !.hooks = r.hooks]
    /\ held' = HeldAfterReload
    /\ stale' = StaleAfter(disk', {})
    /\ prevUpd' = {}
    /\ UNCHANGED <<pk, tree, del, net, remote, ops, running, root>>

\* manager.py 259-270: Manager.delete(pack), called by `delete -y` for a
\* pack that find_packs_with_notify found among the available ones
DeleteCall(k) ==
    /\ running = Idle
    /\ k \in 1..Len(packs)
    /\ ~Unavailable(packs[k])
    /\ LET r == reload(FALSE, [disk EXCEPT ![packs[k].slug] = NoDir])
       IN  /\ packs' = r.packs
           /\ disk' = r.disk
           /\ ev' = [NoEvent EXCEPT !.type = "delete", !.reloads = 1, !.hooks = r.hooks]
    /\ held' = HeldAfterReload
    /\ stale' = StaleAfter(disk', {})
    /\ prevUpd' = {}
    /\ UNCHANGED <<pk, tree, del, net, remote, ops, running, root>>

\* ------------------------------------------------------ command handlers
\* the reference a handler keeps, after the fields of the objects of the
\* list ps changed
HeldSynced(ps) ==
    IF held.idx = 0 THEN held
    ELSE [held EXCEPT !.disabled = ps[held.idx].disabled, !.cache = ps[held.idx].cache]

\* the reference to the object p of the list ps
RefTo(p, ps) ==
    LET k == CHOOSE j \in 1..Len(ps) : ps[j].slug = p.slug
    IN  [slug |-> p.slug, ref_outdated |-> ps[k].ref_outdated, idx |-> k,
         disabled |-> ps[k].disabled, cache |-> ps[k].cache]

\* __main__.py 462-471, find_packs_with_notify(query, include_unavailable) as
\* the delete and enable/disable handlers call it (handlers/manage.py 189,
\* 243): the handler keeps the pack found; available_packs reads unavailable,
\* and so merged_config, of every pack of the list
FindPacks(q, inc) ==
    /\ running = Idle
    /\ LET found == find_pack(q, inc)
       IN  /\ packs' = IF inc THEN packs
                       ELSE [k \in 1..Len(packs) |-> FillCache(packs[k])]
           /\ held' = IF found = NoPack THEN HeldSynced(packs') ELSE RefTo(found, packs')
           /\ ev' = [NoEvent EXCEPT !.type = "find", !.queries = <<q>>, !.inc = inc,
                                    !.found = found.slug]
    /\ prevUpd' = {}
    /\ UNCHANGED <<pk, tree, disk, remote, ops, running, stale, root, del, net>>

\* pack.py 139-141: the fields of self.config as save_config writes them
PackConfig(p) ==
    [exists |-> TRUE, update_source |-> p.source, disabled |-> p.disabled,
     commands |-> p.commands, extend_commands |-> p.extend_commands]

\* pack.py 137-141, write_text: "ok" writes the file; "refused" raises when
\* the file is opened for writing
WriteConfigFile(d, p, outcome) ==
    IF ~d.dir \/ outcome = "refused" THEN d
    ELSE [d EXCEPT !.config = PackConfig(p), !.broken = FALSE]

WriteRaises_Never(d, outcome) == FALSE

\* handlers/manage.py 256-260: save_config raised
WriteRaises(d, outcome) == ~d.dir \/ outcome # "ok"

\* handlers/manage.py 249-262, the loop over the resolved packs: found[i] is
\* the position of the i-th pack in the list ps
RECURSIVE SetDisabledLoop(_, _, _, _, _, _, _)
SetDisabledLoop(found, i, disable, outcome, ps, dk, info) ==
    IF i > Len(found) THEN [packs |-> ps, disk |-> dk, info |-> info]
    ELSE LET k == found[i]
             p == ps[k]
         IN  IF p.disabled = disable
             THEN SetDisabledLoop(found, i + 1, disable, outcome, ps, dk,
                                  [info EXCEPT !.skipped = Append(@, <<p.slug, "already">>)])
             ELSE LET p2 == InvalidateCache([p EXCEPT !.disabled = disable])
                      d2 == WriteConfigFile(dk[p.slug], p2, outcome[i])
                  IN  SetDisabledLoop(found, i + 1, disable, outcome,
                          [ps EXCEPT ![k] = p2], [dk EXCEPT ![p.slug] = d2],
                          IF WriteRaises(dk[p.slug], outcome[i])
                          THEN [info EXCEPT !.failed = Append(@, <<p.slug, "os_error">>)]
                          ELSE [info EXCEPT !.succeed = Append(@, p.slug)])

WriteOutcomes == {"ok", "refused"}

\* handlers/manage.py 236-264: the enable / disable command on the queries qs
SetDisabled(qs, disable, outcome) ==
    /\ running = Idle
    /\ outcome \in [1..Len(qs) -> WriteOutcomes]
    /\ LET hits == [i \in 1..Len(qs) |-> find_pack(qs[i], TRUE)]
       IN  IF \E i \in 1..Len(qs) : hits[i] = NoPack
           THEN /\ ev' = [NoEvent EXCEPT !.type = "not_found", !.queries = qs,
                                         !.inc = TRUE, !.target = disable]
                /\ UNCHANGED <<packs, disk, held>>
           ELSE LET r == SetDisabledLoop([i \in 1..Len(qs) |-> IndexOf(hits[i])], 1,
                                         disable, outcome, packs, disk, EmptyInfo)
                IN  /\ packs' = r.packs
                    /\ disk' = r.disk
                    /\ held' = HeldSynced(r.packs)
                    /\ ev' = [NoEvent EXCEPT !.type = "set_disabled", !.queries = qs,
                                             !.inc = TRUE, !.target = disable,
                                             !.info = r.info,
                                             !.notified = SeqToSet(r.info.succeed)]
    /\ prevUpd' = {}
    /\ stale' = StaleAfter(disk', {})
    /\ UNCHANGED <<pk, tree, remote, ops, running, root, del, net>>

\* the token of `running` while Manager.delete holds the event loop
Deleting == <<0, 1>>

RemoveAt_Keep(ps, k) == ps

\* manager.py 261: self.packs.remove(pack)
RemoveAt(ps, k) == [j \in 1..(Len(ps) - 1) |-> IF j < k THEN ps[j] ELSE ps[j + 1]]

\* the entries whose removal the operating system may refuse
Undeletable == {MANIFEST_FILENAME, AssetNames[1]}

\* manager.py 259-262: Manager.delete(pack) on the pack the delete handler
\* looked up (handlers/manage.py 189-217), up to the call of shutil.rmtree;
\* list.remove raises ValueError for an object that left the list
DeleteBegin ==
    /\ running = Idle
    /\ held.slug # ""
    /\ held' = [MarkOutdated(held) EXCEPT !.idx = 0]
    /\ IF held.idx = 0
       THEN /\ ev' = [NoEvent EXCEPT !.type = "delete_raised", !.found = held.slug]
            /\ UNCHANGED <<packs, running, del>>
       ELSE /\ packs' = RemoveAt(packs, held.idx)
            /\ del' = [slug |-> held.slug, left |-> ListFiles(disk[held.slug])]
            /\ running' = Deleting
            /\ ev' = NoEvent
    /\ prevUpd' = {}
    /\ UNCHANGED <<pk, tree, disk, remote, ops, stale, root, net>>

\* manager.py 262-268: rmtree(ignore_errors=True) comes to the entry f, in
\* the order os.scandir lists the directory; a refused removal is passed over
DeleteEntry(f, refused) ==
    /\ running = Deleting
    /\ f \in del.left
    /\ refused => f \in Undeletable
    /\ del' = [del EXCEPT !.left = @ \ {f}]
    /\ disk' = IF refused THEN disk ELSE [disk EXCEPT ![del.slug] = Unlink(@, f)]
    /\ ev' = NoEvent
    /\ stale' = StaleAfter(disk', {})
    /\ UNCHANGED <<pk, tree, remote, packs, ops, running, prevUpd, root, held, net>>

\* rmtree ends with os.rmdir, which is refused for a directory that is not empty
RemoveDir(d) == IF ListFiles(d) = {} THEN NoDir ELSE d

\* manager.py 262-270: rmtree returns; self.reload()
DeleteFinish ==
    /\ running = Deleting
    /\ del.left = {}
    /\ LET r == reload(FALSE, [disk EXCEPT ![del.slug] = RemoveDir(@)])
       IN  /\ packs' = r.packs
           /\ disk' = r.disk
           /\ ev' = [NoEvent EXCEPT !.type = "delete", !.found = del.slug,
                                    !.reloads = 1, !.hooks = r.hooks]
    /\ held' = HeldAfterReload
    /\ del' = NoDelete
    /\ running' = Idle
    /\ stale' = StaleAfter(disk', {})
    /\ prevUpd' = {}
    /\ UNCHANGED <<pk, tree, remote, ops, root, net>>

\* ------------------------------------------------------------ fetch layer
\* the semaphore every fetch of the Manager operation o is given (manager.py
\* 134 / 222, sem = create_req_sem()): a new asyncio.Semaphore of
\* req_concurrency permits, named by the operation
create_req_sem(o) == o

\* source_fetch.py 70-71: the tasks that hold a permit of the semaphore sem
Holders(sem) ==
    {c \in OpIds \X FetchIds :
        create_req_sem(c[1]) = sem /\ net.tasks[c[1]][c[2]].pc \in {"attempt", "sleep"}}

\* the requests that are on the wire (source_fetch.py 67, cli.get)
InFlight == {c \in OpIds \X FetchIds : net.tasks[c[1]][c[2]].pc = "attempt"}

\* the tasks that have not returned or raised yet
RunningTasks(o) ==
    {t \in FetchIds : net.tasks[o][t].pc \in {"waiting", "attempt", "sleep"}}

StopAfterAttempt_OneMore(attempt_number, max_attempt_number) ==
    attempt_number >= max_attempt_number + 1

\* utils.py 22, tenacity stop_after_attempt(k): stop once the attempt number
\* has reached k (the first attempt is always made)
StopAfterAttempt(attempt_number, max_attempt_number) ==
    attempt_number >= max_attempt_number

\* update.py 142: do_update of the operation o starts one download task per
\* file and awaits their gather; each task runs to `async with sem`
StartFetches(o) ==
    /\ net.gathers[o] = "none"
    /\ net' = [net EXCEPT !.gathers[o] = "waiting",
                          !.tasks[o] = [t \in FetchIds |-> [NoTask EXCEPT !.pc = "waiting"]]]
    /\ UNCHANGED <<pk, tree, disk, remote, packs, ops, running, ev, stale, prevUpd, root, held, del>>

\* source_fetch.py 71-72: a permit of the task's semaphore is free; the task
\* takes it and sends its first request
Acquire(o, t) ==
    /\ net.tasks[o][t].pc = "waiting"
    /\ Cardinality(Holders(create_req_sem(o))) < req_concurrency
    /\ net' = [net EXCEPT !.tasks[o][t].pc = "attempt", !.tasks[o][t].n = 1]
    /\ UNCHANGED <<pk, tree, disk, remote, packs, ops, running, ev, stale, prevUpd, root, held, del>>

\* source_fetch.py 67, 72: the request is answered; fetch returns the
\* response and the permit
AttemptOk(o, t) ==
    /\ net.tasks[o][t].pc = "attempt"
    /\ net' = [net EXCEPT !.tasks[o][t].pc = "ok",
                          !.tasks[o][t].result = <<"response", net.tasks[o][t].n>>]
    /\ UNCHANGED <<pk, tree, disk, remote, packs, ops, running, ev, stale, prevUpd, root, held, del>>

\* source_fetch.py 67 with utils.py 20-27: the request raises; the retry
\* either stops and re-raises that error (reraise=True), which returns the
\* permit, or sleeps wait_fixed(0.5) with the permit held
AttemptFails(o, t) ==
    /\ net.tasks[o][t].pc = "attempt"
    /\ LET k == net.tasks[o][t]
       IN  net' = IF StopAfterAttempt(k.n, net.retry_times)
                  THEN [net EXCEPT !.tasks[o][t] =
                           [k EXCEPT !.pc = "error", !.failed = @ + 1,
                                     !.result = <<"error", k.n>>]]
                  ELSE [net EXCEPT !.tasks[o][t] =
                           [k EXCEPT !.pc = "sleep", !.failed = @ + 1]]
    /\ UNCHANGED <<pk, tree, disk, remote, packs, ops, running, ev, stale, prevUpd, root, held, del>>

\* the sleep is over: the next attempt
NextAttempt(o, t) ==
    /\ net.tasks[o][t].pc = "sleep"
    /\ net' = [net EXCEPT !.tasks[o][t].pc = "attempt", !.tasks[o][t].n = @ + 1]
    /\ UNCHANGED <<pk, tree, disk, remote, packs, ops, running, ev, stale, prevUpd, root, held, del>>

\* update.py 142: every task returned, and so does the gather
GatherReturns(o) ==
    /\ net.gathers[o] = "waiting"
    /\ \A t \in FetchIds : net.tasks[o][t].pc = "ok"
    /\ net' = [net EXCEPT !.gathers[o] = "returned"]
    /\ UNCHANGED <<pk, tree, disk, remote, packs, ops, running, ev, stale, prevUpd, root, held, del>>

\* update.py 142: asyncio.gather (return_exceptions=False) raises the first
\* exception of a task to its awaiter at once; it neither cancels nor awaits
\* the other tasks
GatherRaises(o) ==
    /\ net.gathers[o] = "waiting"
    /\ \E t \in FetchIds : net.tasks[o][t].pc = "error"
    /\ net' = [net EXCEPT !.gathers[o] = "raised"]
    /\ UNCHANGED <<pk, tree, disk, remote, packs, ops, running, ev, stale, prevUpd, root, held, del>>

\* ------------------------------------------------- pack.py, one object
\* cookit.deep_merge on a key that one or both of the dumped dicts hold:
\* merged is the value when both hold it
MergeKey(a, b, merged) == IF a.set /\ b.set THEN Given(merged) ELSE IF b.set THEN b ELSE a

MergeLists_Join(path, a, b, skip_merge_paths) == a \o b

\* cookit.deep_merge on two lists: the second is appended to the first,
\* except at a path of skip_merge_paths, where the second replaces the first
MergeLists(path, a, b, skip_merge_paths) ==
    IF path \in skip_merge_paths THEN b ELSE a \o b

\* cookit.deep_merge on the two values of update_source: two dicts are
\* merged key by key, anything else is replaced by the second value
MergeSources(a, b) ==
    IF a.null \/ b.null THEN b
    ELSE [null |-> FALSE,
          type |-> MergeKey(a.type, b.type, b.type.v),
          url |-> MergeKey(a.url, b.url, b.url.v)]

\* pack.py 128-134: StickerPackConfig(**deep_merge(dump(default_config),
\* dump(config), skip_merge_paths=...)), both dumped with exclude_unset=True;
\* a key that neither holds keeps the default of models.py 146-150
deep_merge(d, l, skip_merge_paths) ==
    [update_source |-> MergeKey(d.update_source, l.update_source,
                                MergeSources(d.update_source.v, l.update_source.v)),
     disabled |-> MergeKey(d.disabled, l.disabled, l.disabled.v),
     commands |-> MergeKey(d.commands, l.commands,
                           MergeLists("commands", d.commands.v, l.commands.v,
                                      skip_merge_paths)),
     extend_commands |-> MergeKey(d.extend_commands, l.extend_commands,
                                  MergeLists("extend_commands", d.extend_commands.v,
                                             l.extend_commands.v, skip_merge_paths))]

\* pack.py 121-135: what the property merged_config of the object o returns
merged_config(o) ==
    IF o.cache = <<>> THEN deep_merge(o.manifest, o.config, {"commands"}) ELSE o.cache[1]

\* a read of pack.merged_config: the value is kept in _cached_merged_config
ReadMergedConfig ==
    /\ running = Idle
    /\ pk' = [pk EXCEPT !.cache = <<merged_config(pk)>>]
    /\ ev' = [NoEvent EXCEPT !.type = "merged_config", !.value = <<merged_config(pk)>>]
    /\ UNCHANGED <<disk, remote, packs, ops, running, stale, prevUpd, root, held, del, net,
                   tree>>

\* pack.py 94-100: reload_manifest()
reload_manifest(o) == [o EXCEPT !.manifest = o.manifest_file]

\* pack.py 102-113: reload_config() (config.json exists once the object was
\* constructed)
reload_config(o) == [o EXCEPT !.cache = <<>>, !.config = o.config_file]

\* pack.py 137-143: save_config()
save_config(o) == [o EXCEPT !.cache = <<>>, !.config_file = o.config]

\* pack.py 145-150: save_manifest()
save_manifest(o) == [o EXCEPT !.manifest_file = o.manifest]

\* one of reload_manifest, reload_config, reload (pack.py 115-119),
\* save_config and save_manifest is called on the object
PackCall(op) ==
    /\ running = Idle
    /\ op \in {"reload_manifest", "reload_config", "reload", "save_config", "save_manifest"}
    /\ pk' = IF op = "reload_manifest" THEN reload_manifest(pk)
             ELSE IF op = "reload_config" THEN reload_config(pk)
             ELSE IF op = "reload" THEN reload_config(reload_manifest(pk))
             ELSE IF op = "save_config" THEN save_config(pk)
             ELSE save_manifest(pk)
    /\ ev' = [NoEvent EXCEPT !.type = op, !.notified = {"a"}]
    /\ UNCHANGED <<disk, remote, packs, ops, running, stale, prevUpd, root, held, del, net,
                   tree>>

\* update.py 185-188 in another object of the same directory: an update
\* writes a manifest.json whose default_config is c
WriteManifestFile(c) ==
    /\ running = Idle
    /\ c # pk.manifest_file
    /\ pk' = [pk EXCEPT !.manifest_file = c]
    /\ ev' = NoEvent
    /\ UNCHANGED <<disk, remote, packs, ops, running, stale, prevUpd, root, held, del, net,
                   tree>>

\* the user edits config.json by hand
EditConfigFile(c) ==
    /\ running = Idle
    /\ c # pk.config_file
    /\ pk' = [pk EXCEPT !.config_file = c]
    /\ ev' = NoEvent
    /\ UNCHANGED <<disk, remote, packs, ops, running, stale, prevUpd, root, held, del, net,
                   tree>>

\* handlers/manage.py 250: pack.config.disabled == disable
AlreadySet(o, disable) == o.config.disabled.v = disable

\* handlers/manage.py 249-262 on the object (its pack was found by
\* find_packs_with_notify): the enable / disable command.  outcome: whether
\* write_text of save_config wrote the file or raised
SetDisabledPack(disable, outcome) ==
    /\ running = Idle
    /\ outcome \in WriteOutcomes
    /\ IF AlreadySet(pk, disable)
       THEN /\ pk' = pk
            /\ ev' = [NoEvent EXCEPT !.type = "set_disabled", !.target = disable,
                                     !.info = [EmptyInfo EXCEPT !.skipped = <<<<"a", "already">>>>]]
       ELSE LET o == [pk EXCEPT !.config.disabled = Given(disable)]
            IN  IF outcome = "ok"
                THEN /\ pk' = save_config(o)
                     /\ ev' = [NoEvent EXCEPT !.type = "set_disabled", !.target = disable,
                                              !.info = [EmptyInfo EXCEPT !.succeed = <<"a">>],
                                              !.notified = {"a"}]
                ELSE /\ pk' = [o EXCEPT !.cache = <<>>]
                     /\ ev' = [NoEvent EXCEPT !.type = "set_disabled", !.target = disable,
                                              !.info = [EmptyInfo EXCEPT
                                                           !.failed = <<<<"a", "os_error">>>>]]
    /\ UNCHANGED <<disk, remote, packs, ops, running, stale, prevUpd, root, held, del, net,
                   tree>>

\* ------------------------------------------- update.py, removing files
\* any(p.iterdir()) is false: the folder d of the tree t holds nothing
IsEmptyDir(t, d) == \A p \in t.dirs \cup t.files : Parent(p) # d

\* update.py 170-171: every file of files_should_remove (stale_files) is unlinked
UnlinkAll(t, stale_files) == [t EXCEPT !.files = @ \ stale_files]

\* update.py 174-176: the folders that are empty when the tuple is built
empty_folders(t) == {d \in t.dirs : IsEmptyDir(t, d)}

\* update.py 181-182: each collected folder is removed
RemoveFolders(t, folders) == [t EXCEPT !.dirs = @ \ folders]

\* update.py 163-182 of an update whose files_should_remove is the set given
RemoveStale(stale_files) ==
    /\ running = Idle
    /\ tree.pc = "start"
    /\ stale_files \subseteq tree.files
    /\ LET t == UnlinkAll(tree, stale_files)
       IN  tree' = [RemoveFolders(t, empty_folders(t)) EXCEPT
                       !.toRm = stale_files, !.pc = "done"]
    /\ ev' = NoEvent
    /\ UNCHANGED <<disk, remote, packs, ops, running, stale, prevUpd, root, held, del, net,
                   pk>>

\* -------------------------------------------------- process life cycle
\* the token of `running` while the bot process is not running
Down == <<0, 2>>

\* the bot process ends (it is stopped, killed or loses power), whatever its
\* coroutines were doing: the directory stays as it is
ProcessExit ==
    /\ running # Down
    /\ running # Deleting
    /\ ops' = [o \in OpIds |-> IdleOp]
    /\ packs' = <<>>
    /\ held' = NoRef
    /\ running' = Down
    /\ ev' = [NoEvent EXCEPT !.type = "exit"]
    /\ stale' = StaleAfter(disk, {CallOf(c).slug : c \in {x \in Calls : InFlagCtx(CallOf(x).pc)}})
    /\ prevUpd' = {}
    /\ UNCHANGED <<disk, remote, root, del, net, pk, tree>>

\* __init__.py 34-39, on_startup with auto_update and force_update at their
\* defaults (config.py 24-25): reload(clear_updating_flags=True), then
\* Manager.update(force=False) up to its first await (manager.py 127-155)
Startup ==
    /\ running = Down
    /\ LET r == reload(TRUE, disk)
           Test(x) == x.source # NoSource /\ ~r.disk[x.slug].flag
           will == SelectSeq(r.packs, Test)
       IN  /\ packs' = r.packs
           /\ disk' = r.disk
           /\ ops' = IF ReturnsEarly(will) THEN ops
                      ELSE [ops EXCEPT ![2] = [IdleOp EXCEPT !.kind = "update",
                                                  !.pc = "fetch_manifests", !.will = will,
                                                  !.sel = AllSlugs,
                                                  !.cand = {will[k].slug : k \in 1..Len(will)}]]
           /\ ev' = [NoEvent EXCEPT !.type = "startup", !.clear = TRUE, !.info = r.info,
                                    !.reloads = 1, !.hooks = r.hooks, !.sel = AllSlugs]
    /\ running' = Idle
    /\ stale' = StaleAfter(disk', {})
    /\ prevUpd' = {}
    /\ UNCHANGED <<remote, root, held, del, net, pk, tree>>

\* ---------------------------------------------------------- environment
Involved(o, s) ==
    \/ s \in SeqToSet(ops[o].batch)
    \/ \E k \in 1..Len(ops[o].will) : ops[o].will[k].slug = s
    \/ \E k \in 1..Len(ops[o].items) : ops[o].items[k].slug = s

\* the publisher releases a new version of a pack (between operations on it)
RemoteBump(s) ==
    /\ running = Idle
    /\ remote[s] < MaxVersion
    /\ \A o \in OpIds : ~Involved(o, s)
    /\ remote' = [remote EXCEPT ![s] = @ + 1]
    /\ ev' = NoEvent
    /\ prevUpd' = {}
    /\ UNCHANGED <<pk, tree, del, net, disk, packs, ops, running, stale, root, held>>

\* the publisher releases a new version while operations are under way
RemoteBumpRace(s) ==
    /\ running = Idle
    /\ remote[s] < MaxRaceVersion
    /\ remote' = [remote EXCEPT ![s] = @ + 1]
    /\ ev' = NoEvent
    /\ prevUpd' = {}
    /\ UNCHANGED <<pk, tree, del, net, disk, packs, ops, running, stale, root, held>>

\* bytes that no release of the source serves
DamagedBytes == MaxRaceVersion + 1

\* an asset of a pack directory is damaged on disk (one at a time per pack)
CorruptAsset(s, f) ==
    /\ running = Idle
    /\ disk[s].dir
    /\ disk[s].files[f] # 0
    /\ \A g \in Assets : disk[s].files[g] # DamagedBytes
    /\ disk' = [disk EXCEPT ![s].files[f] = DamagedBytes]
    /\ ev' = NoEvent
    /\ prevUpd' = {}
    /\ UNCHANGED <<pk, tree, del, net, remote, packs, ops, running, stale, root, held>>

\* the user edits config.json of an installed pack into something that does
\* not validate
BreakPack(s) ==
    /\ running = Idle
    /\ IsCandidate(disk[s])
    /\ disk[s].config.exists
    /\ ~disk[s].broken
    /\ disk' = [disk EXCEPT ![s].broken = TRUE]
    /\ ev' = NoEvent
    /\ prevUpd' = {}
    /\ UNCHANGED <<pk, tree, del, net, remote, packs, ops, running, stale, root, held>>

\* a handler looks a pack up in the manager and keeps the object
\* (handlers/manage.py 189: find_packs_with_notify)
Hold(k) ==
    /\ running = Idle
    /\ k \in 1..Len(packs)
    /\ held' = [slug |-> packs[k].slug, ref_outdated |-> packs[k].ref_outdated, idx |-> k,
                disabled |-> packs[k].disabled, cache |-> packs[k].cache]
    /\ ev' = NoEvent
    /\ prevUpd' = {}
    /\ UNCHANGED <<pk, tree, del, net, disk, remote, packs, ops, running, stale, root>>

\* the steps of the coroutine o once it was called
OpStep(o) ==
    \/ InstallHubFailed(o)
    \/ InstallHubFetched(o)
    \/ \E i \in ItemIds : CallManifestFetched(o, i)
    \/ \E i \in ItemIds : CallManifestFailed(o, i)
    \/ \E i \in ItemIds, hasCks \in BOOLEAN, cks \in SUBSET Assets :
          CallPlan(o, i, hasCks, cks)
    \/ \E i \in ItemIds : CallDownloaded(o, i)
    \/ \E i \in ItemIds : CallDownloadFailed(o, i)
    \/ \E i \in ItemIds, f \in Assets : CallMove(o, i, f)
    \/ \E i \in ItemIds, f \in FileNames : CallRemove(o, i, f)
    \/ \E i \in ItemIds : CallWriteManifest(o, i)
    \/ \E i \in ItemIds : CallWriteConfig(o, i)
    \/ \E i \in ItemIds : CallRemoveFlag(o, i)
    \/ \E i \in ItemIds : CallRaise(o, i)
    \/ \E ok \in SUBSET Slugs : UpdateManifestsFetched(o, ok)
    \/ OpFinish(o)

Next ==
    \/ \E o \in OpIds, batch \in InstallBatches : InstallCall(o, batch)
    \/ \E o \in OpIds, sel \in UpdateSelections, force \in BOOLEAN : UpdateCall(o, sel, force)
    \/ \E o \in OpIds : OpStep(o)
    \/ \E clear \in BOOLEAN : ReloadCall(clear)
    \/ \E k \in 1..Len(SlugOrder) : DeleteCall(k)
    \/ \E s \in ReleasingSlugs : RemoteBump(s)

Spec == Init /\ [][Next]_vars

\* one Manager operation at a time
NextSolo ==
    \/ \E batch \in SoloBatches : AllIdle /\ InstallCall(1, batch)
    \/ \E sel \in UpdateSelections, force \in BOOLEAN : AllIdle /\ UpdateCall(1, sel, force)
    \/ OpStep(1)
    \/ \E clear \in BOOLEAN : AllIdle /\ ReloadCall(clear)
    \/ \E k \in 1..Len(SlugOrder) : AllIdle /\ DeleteCall(k)
    \/ \E s \in ReleasingSlugs : AllIdle /\ RemoteBump(s)
    \/ \E k \in 1..Len(SlugOrder) : AllIdle /\ Hold(k)

SpecSolo == Init /\ [][NextSolo]_vars

\* one Manager operation at a time over several slugs, with damage from
\* outside between operations
NextBatch ==
    \/ \E batch \in BatchInstalls : AllIdle /\ InstallCall(1, batch)
    \/ \E sel \in BatchSelections, force \in BOOLEAN : AllIdle /\ UpdateCall(1, sel, force)
    \/ OpStep(1)
    \/ \E clear \in BOOLEAN : AllIdle /\ ReloadCall(clear)
    \/ \E k \in 1..Len(SlugOrder) : AllIdle /\ DeleteCall(k)
    \/ \E s \in ReleasingSlugs : AllIdle /\ RemoteBump(s)
    \/ \E s \in DamagedSlugs, f \in Assets : AllIdle /\ CorruptAsset(s, f)
    \/ \E s \in EditedSlugs : AllIdle /\ BreakPack(s)

SpecBatch == Init /\ [][NextBatch]_vars

\* overlapping Manager.update(force=False) calls on an installed pack while
\* its publisher releases versions
NextRace ==
    \/ \E batch \in InstallBatches : AllIdle /\ InstallCall(1, batch)
    \/ \E o \in OpIds, sel \in UpdateSelections : UpdateCall(o, sel, FALSE)
    \/ \E o \in OpIds : OpStep(o)
    \/ \E s \in ReleasingSlugs : RemoteBumpRace(s)

SpecRace == Init /\ [][NextRace]_vars

\* the directory of a pack that was installed at version 1 from the hub; the
\* user has since written command lists into the config.json of the slugs
\* of EditedSlugs
InstalledDir(s) ==
    [NoDir EXCEPT !.dir = TRUE, !.manifest = 1,
                  !.config = [DefaultConfig EXCEPT
                                 !.update_source = HubSource(s),
                                 !.commands = IF s \in EditedSlugs THEN 1 ELSE 0,
                                 !.extend_commands = IF s \in EditedSlugs THEN 1 ELSE 0],
                  !.files = [f \in Assets |-> IF f \in collect_manifest_files(1)
                                              THEN RemoteContent(1, f) ELSE 0]]

\* the plugin starts on a data directory that holds the packs of the hub:
\* __init__.py 36 loads them
InitAdmin ==
    /\ disk = [s \in Slugs |-> IF s \in HubSlugs THEN InstalledDir(s) ELSE NoDir]
    /\ remote = [s \in Slugs |-> 1]
    /\ packs = SelectSeq([k \in 1..Len(SlugOrder) |-> LoadPack(SlugOrder[k], disk[SlugOrder[k]])],
                         LAMBDA x : x.slug \in HubSlugs)
    /\ ops = [o \in OpIds |-> IdleOp]
    /\ running = Idle
    /\ ev = NoEvent
    /\ stale = [s \in Slugs |-> FALSE]
    /\ prevUpd = {}
    /\ root = TRUE
    /\ held = NoRef
    /\ del = NoDelete
    /\ net = NoNet
    /\ pk = NoObject
    /\ tree = NoTree

\* the engine steps of a forced Manager.update of a pack whose publisher
\* released nothing new
UpdateStep(o) ==
    \/ \E ok \in SUBSET Slugs : UpdateManifestsFetched(o, ok)
    \/ \E i \in ItemIds, hasCks \in BOOLEAN, cks \in SUBSET Assets :
          CallPlan(o, i, hasCks, cks)
    \/ \E i \in ItemIds : CallDownloaded(o, i)
    \/ \E i \in ItemIds : CallDownloadFailed(o, i)
    \/ \E i \in ItemIds, f \in Assets : CallMove(o, i, f)
    \/ \E i \in ItemIds : CallWriteManifest(o, i)
    \/ \E i \in ItemIds : CallWriteConfig(o, i)
    \/ \E i \in ItemIds : CallRemoveFlag(o, i)
    \/ \E i \in ItemIds : CallRaise(o, i)
    \/ OpFinish(o)

\* the lookup, enable/disable and delete commands on a loaded data
\* directory, with one forced Manager.update at a time
NextAdmin ==
    \/ \E sel \in UpdateSelections : AllIdle /\ UpdateCall(1, sel, TRUE)
    \/ UpdateStep(1)
    \/ AllIdle /\ ReloadCall(FALSE)
    \/ \E q \in Queries, inc \in BOOLEAN : FindPacks(q, inc)
    \/ \E qs \in ToggleBatches, disable \in BOOLEAN :
          \E outcome \in [1..Len(qs) -> WriteOutcomes] :
             AllIdle /\ SetDisabled(qs, disable, outcome)
    \/ AllIdle /\ DeleteBegin
    \/ \E f \in FileNames, refused \in BOOLEAN : DeleteEntry(f, refused)
    \/ DeleteFinish

SpecAdmin == InitAdmin /\ [][NextAdmin]_vars

\* one Manager operation at a time over two slugs, whose downloads may be
\* cancelled
NextCancel ==
    \/ \E batch \in CancelInstalls : AllIdle /\ InstallCall(1, batch)
    \/ \E sel \in BatchSelections, force \in BOOLEAN : AllIdle /\ UpdateCall(1, sel, force)
    \/ OpStep(1)
    \/ \E i \in ItemIds : CallDownloadCancelled(1, i)
    \/ OrphansDone(1)
    \/ \E clear \in BOOLEAN : AllIdle /\ ReloadCall(clear)
    \/ \E s \in ReleasingSlugs : AllIdle /\ RemoteBump(s)

SpecCancel == Init /\ [][NextCancel]_vars

\* the plugin starts with some configured retry_times
InitFetch ==
    /\ disk = [s \in Slugs |-> NoDir]
    /\ remote = [s \in Slugs |-> 1]
    /\ packs = <<>>
    /\ ops = [o \in OpIds |-> IdleOp]
    /\ running = Idle
    /\ ev = NoEvent
    /\ stale = [s \in Slugs |-> FALSE]
    /\ prevUpd = {}
    /\ root = FALSE
    /\ held = NoRef
    /\ del = NoDelete
    /\ net \in {[NoNet EXCEPT !.retry_times = k] : k \in 0..MaxRetryTimes}
    /\ pk = NoObject
    /\ tree = NoTree

\* the download fan-outs of two Manager operations that run at the same time
NextFetch ==
    \/ \E o \in OpIds : StartFetches(o)
    \/ \E o \in OpIds, t \in FetchIds : Acquire(o, t)
    \/ \E o \in OpIds, t \in FetchIds : AttemptOk(o, t)
    \/ \E o \in OpIds, t \in FetchIds : AttemptFails(o, t)
    \/ \E o \in OpIds, t \in FetchIds : NextAttempt(o, t)
    \/ \E o \in OpIds : GatherReturns(o)
    \/ \E o \in OpIds : GatherRaises(o)

SpecFetch == InitFetch /\ [][NextFetch]_vars

\* every attempt ends (the request is answered or raises), and every sleep
\* is over after 0.5 s
FairFetch ==
    \A o \in OpIds, t \in FetchIds :
        /\ WF_vars(AttemptOk(o, t) \/ AttemptFails(o, t))
        /\ WF_vars(NextAttempt(o, t))

SpecFetchFair == SpecFetch /\ FairFetch

\* one pack was loaded from a manifest.json with the default_config d and a
\* config.json holding l (pack.py 33-37)
LoadedObject(d, l) ==
    [manifest_file |-> d, config_file |-> l, manifest |-> d, config |-> l, cache |-> <<>>]

InitMerge ==
    /\ disk = [s \in Slugs |-> NoDir]
    /\ remote = [s \in Slugs |-> 1]
    /\ packs = <<>>
    /\ ops = [o \in OpIds |-> IdleOp]
    /\ running = Idle
    /\ ev = NoEvent
    /\ stale = [s \in Slugs |-> FALSE]
    /\ prevUpd = {}
    /\ root = TRUE
    /\ held = NoRef
    /\ del = NoDelete
    /\ net = NoNet
    /\ pk \in {LoadedObject(d, l) : d \in ConfigsOf("d"), l \in ConfigsOf("l")}
    /\ tree = NoTree

\* merged_config is read on a pack with any default_config and any config
SpecMerge == InitMerge /\ [][ReadMergedConfig]_vars

InitConfig ==
    /\ disk = [s \in Slugs |-> NoDir]
    /\ remote = [s \in Slugs |-> 1]
    /\ packs = <<>>
    /\ ops = [o \in OpIds |-> IdleOp]
    /\ running = Idle
    /\ ev = NoEvent
    /\ stale = [s \in Slugs |-> FALSE]
    /\ prevUpd = {}
    /\ root = TRUE
    /\ held = NoRef
    /\ del = NoDelete
    /\ net = NoNet
    /\ pk \in {LoadedObject(d, l) : d \in SwitchConfigs, l \in SwitchConfigs}
    /\ tree = NoTree

\* the calls on one pack object while its two files are rewritten from
\* outside, and the enable / disable command on it
NextConfig ==
    \/ ReadMergedConfig
    \/ \E op \in {"reload_manifest", "reload_config", "reload", "save_config",
                   "save_manifest"} : PackCall(op)
    \/ \E c \in SwitchConfigs : WriteManifestFile(c)
    \/ \E c \in SwitchConfigs : EditConfigFile(c)
    \/ \E disable \in BOOLEAN, outcome \in WriteOutcomes : SetDisabledPack(disable, outcome)

SpecConfig == InitConfig /\ [][NextConfig]_vars

\* an update has moved its downloads in and is about to remove what the
\* new manifest no longer references: every folder that holds something is
\* there
InitTree ==
    /\ disk = [s \in Slugs |-> NoDir]
    /\ remote = [s \in Slugs |-> 1]
    /\ packs = <<>>
    /\ ops = [o \in OpIds |-> IdleOp]
    /\ running = Idle
    /\ ev = NoEvent
    /\ stale = [s \in Slugs |-> FALSE]
    /\ prevUpd = {}
    /\ root = TRUE
    /\ held = NoRef
    /\ del = NoDelete
    /\ net = NoNet
    /\ pk = NoObject
    /\ tree \in {[dirs |-> ds, files |-> fs, toRm |-> {}, pc |-> "start"] :
                    ds \in SUBSET TreeDirs, fs \in SUBSET TreeFiles}
    /\ \A p \in tree.dirs \cup tree.files : Len(p) > 1 => Parent(p) \in tree.dirs

SpecTree == InitTree /\ [][\E toRm \in SUBSET TreeFiles : RemoveStale(toRm)]_vars

\* the plugin runs on a data directory that holds pack a at version 1
InitRecover ==
    /\ disk = [s \in Slugs |-> IF s = "a" THEN InstalledDir(s) ELSE NoDir]
    /\ remote = [s \in Slugs |-> 1]
    /\ packs = <<LoadPack("a", disk["a"])>>
    /\ ops = [o \in OpIds |-> IdleOp]
    /\ running = Idle
    /\ ev = NoEvent
    /\ stale = [s \in Slugs |-> FALSE]
    /\ prevUpd = {}
    /\ root = TRUE
    /\ held = NoRef
    /\ del = NoDelete
    /\ net = NoNet
    /\ pk = NoObject
    /\ tree = NoTree

\* one Manager.update at a time on an installed pack whose publisher
\* releases versions; the process may end at any step and is then started
\* again
NextRecover ==
    \/ \E sel \in UpdateSelections, force \in BOOLEAN : AllIdle /\ UpdateCall(1, sel, force)
    \/ \E o \in OpIds : UpdateStep(o)
    \/ \E o \in OpIds, i \in ItemIds, f \in FileNames : CallRemove(o, i, f)
    \/ \E s \in ReleasingSlugs : AllIdle /\ RemoteBump(s)
    \/ ProcessExit
    \/ Startup

SpecRecover == InitRecover /\ [][NextRecover]_vars

\* ================================================================ claims
\* the calls of update_sticker_pack on slug s that are inside their flag context
InCtxCalls(s) == {c \in Calls : CallOf(c).slug = s /\ InFlagCtx(CallOf(c).pc)}

\* the step is a step of call <<o, i>> that was at one of the stages pcs
StepOfCall(o, i, pcs) ==
    /\ i <= Len(ops[o].items)
    /\ Len(ops'[o].items) = Len(ops[o].items)
    /\ ops[o].items[i].pc \in pcs
    /\ ops'[o].items[i] # ops[o].items[i]

Reasons(entries) == {entries[k] : k \in 1..Len(entries)}
FailedSlugs(info) == {info.failed[k][1] : k \in 1..Len(info.failed)}
LoadedSlugs == {packs[k].slug : k \in 1..Len(packs)}

\* C1: for one pack directory, at most one update_sticker_pack call is
\* between its creation of the marker file and its removal of it.
C1_MutualExclusion == \A s \in Slugs : Cardinality(InCtxCalls(s)) <= 1

\* C2: a call of update_sticker_pack that finds the marker file fails with
\* the already-updating error: it starts no fetch, changes no file, and the
\* marker is still there afterwards.
C2_MarkerRejects ==
    [][\A o \in OpIds :
          (ops[o].pc \in {"fetch_hub", "fetch_manifests"} /\ ops'[o].pc = "gather") =>
             \A k \in 1..Len(ops'[o].items) :
                LET it == ops'[o].items[k]
                IN  (it.pc # "done" /\ disk[it.slug].flag) =>
                       /\ it.pc = "failed"
                       /\ <<it.slug, "is_updating">> \in Reasons(ops'[o].info.failed)
                       /\ it.slug \notin SeqToSet(ops'[o].info.succeed)
                       /\ disk' = disk
                       /\ disk'[it.slug].flag]_vars

\* C2 witness: an update was rejected because the marker was there
C2_Witness ==
    \E o \in OpIds : \E k \in 1..Len(ops[o].items) :
        /\ ops[o].items[k].pc = "failed"
        /\ <<ops[o].items[k].slug, "is_updating">> \in Reasons(ops[o].info.failed)
        /\ disk[ops[o].items[k].slug].flag

\* C3: every move, removal, manifest write and config write of a call happens
\* while the marker file exists.
C3_MutationsUnderMarker ==
    [][\A o \in OpIds, i \in ItemIds :
          (/\ StepOfCall(o, i, {"move", "remove", "manifest", "config"})
           /\ ops'[o].items[i].pc # "failed")
          => disk[ops[o].items[i].slug].flag]_vars

\* C4: when a step of a call raises after the marker was created and before
\* it was removed, the marker file is present when the call exits.
C4_FailureLeavesMarker ==
    [][\A o \in OpIds, i \in ItemIds :
          (/\ StepOfCall(o, i, {"downloading", "move", "remove", "manifest", "config"})
           /\ ops'[o].items[i].pc = "failed")
          => disk'[ops[o].items[i].slug].flag]_vars

\* C5 as stated: the marker file of a pack directory exists only while some
\* call on that directory is between marker creation and removal.
C5_MarkerOnlyDuringCall ==
    \A s \in Slugs : disk[s].flag => InCtxCalls(s) # {}

\* C5 amended: the marker file exists only while some call is between marker
\* creation and removal, or after such a call left by an exception.
C5_MarkerDuringCallOrStale ==
    \A s \in Slugs : disk[s].flag => (InCtxCalls(s) # {} \/ stale[s])

\* C5 witness: a failed call has left its marker and no call is running on the pack
C5_Witness ==
    \E s \in Slugs : disk[s].flag /\ stale[s] /\ InCtxCalls(s) = {} /\ AllIdle

\* C6: with the marker of an installed pack present, reload(FALSE) records
\* the slug as skipped for updating, does not load it and leaves the marker;
\* reload(TRUE) deletes the marker and loads the pack from what is on disk.
C6_ReloadAfterInterruption ==
    [][ev'.type = "reload" =>
          \A s \in Slugs :
             (IsCandidate(disk[s]) /\ disk[s].flag) =>
                IF ev'.clear
                THEN /\ ~disk'[s].flag
                     /\ s \in SeqToSet(ev'.info.succeed)
                     /\ \E k \in 1..Len(packs') :
                           /\ packs'[k].slug = s
                           /\ packs'[k].version = disk[s].manifest
                     /\ disk'[s].manifest = disk[s].manifest
                     /\ disk'[s].files = disk[s].files
                ELSE /\ <<s, "updating">> \in Reasons(ev'.info.skipped)
                     /\ s \notin SeqToSet(ev'.info.succeed)
                     /\ \A k \in 1..Len(packs') : packs'[k].slug # s
                     /\ disk'[s] = disk[s]]_vars

\* C6 witness: a reload without clearing has skipped a pack whose update failed
C6_Witness ==
    /\ ev.type = "reload" /\ ~ev.clear
    /\ \E s \in Slugs :
          /\ stale[s] /\ disk[s].flag /\ InCtxCalls(s) = {}
          /\ <<s, "updating">> \in Reasons(ev.info.skipped)
          /\ s \notin LoadedSlugs

\* the local file set A of the diff
LocalSet(d) == {f \in FileNames : d.dir /\ FileExists(d, f)} \ {MANIFEST_FILENAME, CONFIG_FILENAME}

\* the call whose plan the last step computed
PlannedCall == ops[ev.call[1]].items[ev.call[2]]

\* C7: with a checksum map C, a file in both A and B is downloaded iff the
\* checksum of the local file differs from C[f] (no entry counts as
\* different); the files only in B are downloaded, the files only in A are
\* removed, and a call moves and removes nothing else.
C7_DiffMinimality ==
    [][/\ (ev'.type = "plan" /\ ev'.hasCks) =>
             LET c == PlannedCall'
                 d == disk[c.slug]
                 A == LocalSet(d)
                 B == collect_manifest_files(c.manifest)
                 Differs(f) == \/ f \notin ev'.cks
                               \/ calc_checksum(d.files[f])
                                     # calc_checksum(RemoteContent(c.manifest, f))
             IN  /\ \A f \in FileNames :
                       f \in c.toDl <=> (f \in B \ A \/ (f \in A \cap B /\ Differs(f)))
                 /\ \A f \in FileNames : f \in c.toRm <=> f \in A \ B
       /\ \A o \in OpIds, i \in ItemIds :
             StepOfCall(o, i, {"move", "remove"}) =>
                LET c == ops[o].items[i]
                IN  \A f \in FileNames :
                       FileExists(disk'[c.slug], f) # FileExists(disk[c.slug], f)
                       \/ (f \in Assets /\ disk'[c.slug].files[f] # disk[c.slug].files[f])
                       => \/ c.pc = "move" /\ f \in c.toDl
                          \/ c.pc = "remove" /\ f \in c.toRm]_vars

\* C7 witness: a plan with a checksum map keeps a shared file whose bytes
\* match, downloads a missing one and removes an unreferenced one
C7_Witness ==
    /\ ev.type = "plan" /\ ev.hasCks
    /\ LET c == PlannedCall
       IN  \E f \in collect_manifest_files(c.manifest) :
              /\ f \in ev.cks /\ f \notin c.toDl /\ disk[c.slug].files[f] # 0
              /\ c.toDl # {} /\ c.toRm # {}

\* C8: without a checksum map the files downloaded are (B minus A) union
\* (A intersect B), every remote file, and the files removed are A minus B.
C8_DiffCompleteness ==
    [][(ev'.type = "plan" /\ ~ev'.hasCks) =>
          LET c == PlannedCall'
              A == LocalSet(disk[c.slug])
              B == collect_manifest_files(c.manifest)
          IN  /\ c.toDl = (B \ A) \cup (A \cap B)
              /\ c.toDl = B
              /\ c.toRm = A \ B]_vars

\* C8 witness: a plan without a checksum map downloads a file that is there
\* already and removes an unreferenced one
C8_Witness ==
    /\ ev.type = "plan" /\ ~ev.hasCks
    /\ LET c == PlannedCall
       IN  /\ \E f \in c.toDl : disk[c.slug].files[f] # 0
           /\ c.toRm # {}

\* C9: when Manager.install returns with a slug among the succeeded, the pack
\* directory holds exactly the assets of the remote manifest with the remote
\* bytes, manifest.json exists, there is no marker, config.update_source is
\* the hub entry's source and the pack is in the loaded list.
C9_InstallPostState ==
    \A s \in Slugs :
       (ev.type = "install" /\ s \in SeqToSet(ev.info.succeed)) =>
          LET d == disk[s]
          IN  /\ d.dir /\ d.manifest = remote[s]
              /\ \A f \in Assets :
                    IF f \in collect_manifest_files(remote[s])
                    THEN calc_checksum(d.files[f]) = calc_checksum(RemoteContent(remote[s], f))
                    ELSE d.files[f] = 0
              /\ ~d.flag
              /\ d.config.exists /\ d.config.update_source = HubSource(s)
              /\ s \in LoadedSlugs

\* C10 as stated: a second Manager.update(force = FALSE) right after one that
\* updated s, the remote unchanged, reports s as skipped with the
\* no-update-needed reason, calls update_sticker_pack for no such pack (no
\* download, no marker created).
C10_SecondUpdateNoNeed ==
    (ev.type = "update") =>
       \A s \in ev.prev :
          /\ <<s, "no_need_to_update">> \in Reasons(ev.info.skipped)
          /\ s \notin SeqToSet(ev.info.succeed) \cup FailedSlugs(ev.info)
          /\ ~disk[s].flag

\* C10 amended: the second call reports s as skipped, with the
\* no-update-needed reason when its manifest was fetched and with the
\* fetch-failed reason when it was not; it downloads nothing and creates no marker.
C10_SecondUpdateSkips ==
    (ev.type = "update") =>
       \A s \in ev.prev :
          /\ \/ <<s, "no_need_to_update">> \in Reasons(ev.info.skipped)
             \/ <<s, "fetch_manifest_failed">> \in Reasons(ev.info.skipped)
          /\ s \notin SeqToSet(ev.info.succeed) \cup FailedSlugs(ev.info)
          /\ ~disk[s].flag

\* C10 witness: the second update has returned and reports the pack the first
\* one updated as skipped, no update needed
C10_Witness ==
    /\ ev.type = "update"
    /\ ev.prev # {}
    /\ \A s \in ev.prev : <<s, "no_need_to_update">> \in Reasons(ev.info.skipped)

\* the declared assets of the installed pack s whose bytes on disk are damaged
DamagedDeclared(s) ==
    IF disk[s].manifest = 0 THEN {}
    ELSE {f \in collect_manifest_files(disk[s].manifest) : disk[s].files[f] = DamagedBytes}

\* the step is the one in which Manager.update of coroutine o got its
\* manifests and dropped or started its candidates (manager.py 153-201)
UpdateDecides(o) == ops[o].pc = "fetch_manifests" /\ ops'[o].pc # "fetch_manifests"

\* the OpInfo of coroutine o after the step, returned or still being filled
InfoAfter(o) == IF ops'[o].kind = "idle" THEN ev'.info ELSE ops'[o].info

\* the slugs for which the step left a call of the update engine in coroutine o
EngineSlugsAfter(o) ==
    {ops'[o].items[k].slug : k \in {j \in 1..Len(ops'[o].items) :
                                        ops'[o].items[j].pc = "fetch_checksum"}}

\* C11 as stated: when a declared asset of an installed pack is damaged and
\* Manager.update(force=False) finds the remote version equal to the local
\* one, the update engine still runs on the pack (and re-downloads the file).
C11_CorruptedRedownloaded ==
    [][\A o \in OpIds, s \in Slugs :
          ( /\ UpdateDecides(o)
            /\ ~ops[o].force
            /\ s \in ops[o].cand
            /\ remote[s] = disk[s].manifest
            /\ DamagedDeclared(s) # {}
            /\ <<s, "fetch_manifest_failed">> \notin Reasons(InfoAfter(o).skipped) )
          => s \in EngineSlugsAfter(o)]_vars

\* C11 amended: whenever the update engine plans a pack, every declared
\* asset whose local bytes are damaged is among the files to download (the
\* diff looks at neither version nor force); and a candidate that
\* Manager.update reports as needing no update was checked with force=False
\* against a remote version not above the loaded one, gets no engine call
\* and keeps its directory as it was.
C11_DiffUngatedOncePlanned ==
    [][ /\ ev'.type = "plan" =>
            LET c == ops'[ev'.call[1]].items[ev'.call[2]]
            IN  \A f \in collect_manifest_files(c.manifest) :
                    disk[c.slug].files[f] = DamagedBytes => f \in c.toDl
        /\ \A o \in OpIds, s \in Slugs :
              (UpdateDecides(o) /\ <<s, "no_need_to_update">> \in Reasons(InfoAfter(o).skipped))
              => /\ ~ops[o].force
                 /\ \E k \in 1..Len(ops[o].will) :
                        ops[o].will[k].slug = s /\ remote[s] <= ops[o].will[k].version
                 /\ s \notin EngineSlugsAfter(o)
                 /\ disk'[s] = disk[s] ]_vars

\* a forced Manager.update at equal versions planned a pack with a damaged
\* declared asset, and the asset is to be downloaded
C11_Witness ==
    /\ ev.type = "plan"
    /\ ops[ev.call[1]].kind = "update"
    /\ remote[PlannedCall.slug] = disk[PlannedCall.slug].manifest
    /\ \E f \in PlannedCall.toDl : disk[PlannedCall.slug].files[f] = DamagedBytes

\* how many entries of an OpInfo name the slug s
Occurrences(info, s) ==
    Cardinality({k \in 1..Len(info.succeed) : info.succeed[k] = s})
    + Cardinality({k \in 1..Len(info.skipped) : info.skipped[k][1] = s})
    + Cardinality({k \in 1..Len(info.failed) : info.failed[k][1] = s})

SkippedSlugs(info) == {info.skipped[k][1] : k \in 1..Len(info.skipped)}

\* the loaded packs Manager.update(sel) must take as candidates
Selectable(sel) ==
    {packs[k].slug : k \in {j \in 1..Len(packs) :
        /\ packs[j].slug \in sel
        /\ packs[j].source # NoSource
        /\ ~disk[packs[j].slug].flag}}

\* C12: Manager.update takes as candidates exactly the loaded packs with an
\* update source, without marker file and within the given slugs; a candidate
\* is reported skipped exactly when its manifest could not be fetched or
\* force is off and the remote version is not above the loaded one; every
\* other candidate gets exactly one call of the update engine; and when the
\* call returns every candidate has exactly one entry among succeeded,
\* skipped and failed, and nothing else has one.
C12_UpdateSelection ==
    [][ /\ \A o \in OpIds :
              (ops[o].kind = "idle" /\ ops'[o].kind = "update")
              => ops'[o].cand = Selectable(ops'[o].sel)
        /\ (ev'.type = "update" /\ ops' = ops) => Selectable(ev'.sel) = {}
        /\ \A o \in OpIds :
              UpdateDecides(o) =>
              \A k \in 1..Len(ops[o].will) :
                  LET p == ops[o].will[k]
                      calls == {j \in 1..Len(ops'[o].items) : ops'[o].items[j].slug = p.slug}
                      info == InfoAfter(o)
                  IN  /\ p.slug \in SkippedSlugs(info)
                         <=> \/ <<p.slug, "fetch_manifest_failed">> \in Reasons(info.skipped)
                             \/ (~ops[o].force /\ remote[p.slug] <= p.version)
                      /\ Cardinality(calls) = IF p.slug \in SkippedSlugs(info) THEN 0 ELSE 1
        /\ ev'.type = "update" =>
              \A s \in Slugs : Occurrences(ev'.info, s) = IF s \in ev'.cand THEN 1 ELSE 0
      ]_vars

\* a Manager.update with two candidates returned, one updated and the other
\* skipped
C12_Witness ==
    /\ ev.type = "update"
    /\ ev.info.succeed # <<>>
    /\ ev.info.skipped # <<>>
    /\ Cardinality(ev.cand) = 2

\* the step is a step of a call of the update engine made by a Manager.update
UpdateEngineStep ==
    \E o \in OpIds : ops[o].kind = "update" /\ ops'[o] # ops[o]

\* C13: whatever the interleaving of Manager.update(force=False) calls, the
\* version in manifest.json of a pack never decreases, and a step of an
\* update that changes it changes it to a greater one.
C13_VersionMonotonic ==
    [][\A s \in Slugs :
          /\ disk'[s].manifest >= disk[s].manifest
          /\ (UpdateEngineStep /\ disk[s].manifest # 0 /\ disk'[s].manifest # disk[s].manifest)
             => disk'[s].manifest > disk[s].manifest]_vars

\* ins(s) of the install coroutine o returned at one of its two pre-checks
PreCheckFailed(o, s) ==
    /\ ops[o].kind = "install"
    /\ {<<s, "exists">>, <<s, "not_in_hub">>} \cap Reasons(ops[o].info.failed) # {}

\* the update engine was never entered by the items of coroutine o for slug s
NoEngineFor(op, s) ==
    \A k \in 1..Len(op.items) : op.items[k].slug = s => op.items[k].pc = "done"

\* C14: a requested slug whose directory exists, or that the hub does not
\* list, is recorded as failed when Manager.install gets to it, without any
\* I/O; no call of the update engine is ever made for it, and from then on
\* until install has returned its directory stays exactly as it was (absent
\* if it was absent).
C14_InstallPreChecks ==
    [][\A o \in OpIds, s \in Slugs :
          /\ ( /\ ops[o].pc = "fetch_hub" /\ ops'[o].pc = "gather"
               /\ s \in SeqToSet(ops[o].batch)
               /\ (disk[s].dir \/ s \notin HubSlugs) )
             => /\ s \in FailedSlugs(ops'[o].info)
                /\ NoEngineFor(ops'[o], s)
                /\ disk' = disk
          /\ PreCheckFailed(o, s)
             => /\ disk'[s] = disk[s]
                /\ ops'[o].kind = "install"
                   => (NoEngineFor(ops'[o], s) /\ s \in FailedSlugs(ops'[o].info))
                /\ ops'[o].kind # "install"
                   => (ev'.type = "install" /\ s \in FailedSlugs(ev'.info))]_vars

\* an install of an installed slug and of a slug the hub does not list has
\* recorded both failures and goes on
C14_Witness ==
    \E o \in OpIds :
        /\ ops[o].kind = "install"
        /\ ops[o].pc = "gather"
        /\ \E s, t \in Slugs :
              /\ <<s, "exists">> \in Reasons(ops[o].info.failed)
              /\ disk[s].manifest # 0
              /\ <<t, "not_in_hub">> \in Reasons(ops[o].info.failed)
              /\ ~disk[t].dir

\* in this step the call <<o, i>> of the update engine raises
EngineRaises(o, i) ==
    /\ i \in 1..Len(ops[o].items)
    /\ ops[o].items[i].pc \notin {"none", "done", "failed"}
    /\ ops'[o].kind = ops[o].kind
    /\ ops'[o].items[i].pc = "failed"

\* in this step the batch call of coroutine o returns its OpInfo
BatchReturns(o) ==
    /\ ops[o].kind \in {"install", "update"}
    /\ ops'[o].kind = "idle"
    /\ ev'.type = ops[o].kind

\* how many times the batch of coroutine o asks for slug s: the tasks
\* install made for it, or its being a candidate of update
Requests(o, s) ==
    IF ops[o].kind = "install"
    THEN Cardinality({k \in 1..Len(ops[o].items) : ops[o].items[k].slug = s})
    ELSE IF s \in ops[o].cand THEN 1 ELSE 0

\* what C15 says of one item whose engine call raises, and of the return of
\* the batch: the batch goes on, the slug gets one more failed entry, the
\* other items are untouched; the batch returns only when all its items have
\* their outcome
IsolatedFailure ==
    /\ \A o \in OpIds, i \in ItemIds :
          EngineRaises(o, i)
          => /\ ops'[o].pc = ops[o].pc
             /\ Len(ops'[o].info.failed) = Len(ops[o].info.failed) + 1
             /\ ops'[o].info.failed[Len(ops'[o].info.failed)][1] = ops[o].items[i].slug
             /\ ops'[o].info.failed[Len(ops'[o].info.failed)][2]
                    \in {"fetch_error", "file_not_found", "os_error", "load_error"}
             /\ ops'[o].info.succeed = ops[o].info.succeed
             /\ ops'[o].info.skipped = ops[o].info.skipped
             /\ \A j \in 1..Len(ops[o].items) : j # i => ops'[o].items[j] = ops[o].items[j]
    /\ \A o \in OpIds :
          BatchReturns(o)
          => /\ \A j \in 1..Len(ops[o].items) : ops[o].items[j].pc \in {"done", "failed"}
             /\ ops[o].pc = "gather" => ev'.info = ops[o].info

Loadable ==
    {s \in Slugs : IsCandidate(disk[s]) /\ ~disk[s].flag /\ ~LoadFails(disk[s])}

\* C16 as stated: every Manager.update that returns an OpInfo has run
\* Manager.reload exactly once, also when every candidate was skipped or
\* there was none.
C16_UpdateAlwaysReloads ==
    ev.type = "update" => ev.reloads = 1

\* C16 amended: a Manager.update that passed at least one candidate to the
\* update engine ends with exactly one reload, after which the list holds
\* what the disk holds; one that had no candidate or skipped them all returns
\* without reloading.
C16_UpdateReloadsIfEngineRan ==
    ev.type = "update" =>
        IF ev.info.succeed # <<>> \/ ev.info.failed # <<>>
        THEN ev.reloads = 1 /\ (root => LoadedSlugs = Loadable)
        ELSE ev.reloads = 0

\* a Manager.update returned after its only engine call failed, and reloaded
C16_Witness ==
    /\ ev.type = "update"
    /\ ev.reloads = 1
    /\ ev.info.succeed = <<>>
    /\ ev.info.failed # <<>>

\* C17: a Manager.install that returns an OpInfo has run Manager.reload
\* exactly once, in its last step and not before, when every ins(slug) had
\* returned with its entry recorded, also when every slug failed a pre-check;
\* after it the list holds what the disk holds.
C17_InstallReloadsOnceAtEnd ==
    [][\A o \in OpIds :
          /\ (ops[o].kind = "install" /\ ops'[o].kind = "install")
             => (ev'.reloads = 0 /\ packs' = packs)
          /\ (ops[o].kind = "install" /\ ops'[o].kind = "idle" /\ ev'.type = "install")
             => /\ ev'.reloads = 1
                /\ \A j \in 1..Len(ops[o].items) : ops[o].items[j].pc \in {"done", "failed"}
                /\ \A s \in Slugs : Occurrences(ev'.info, s) = Requests(o, s)
                /\ LoadedSlugs' = Loadable']_vars

\* an install whose two slugs both failed their pre-check returned, having
\* reloaded
C17_Witness ==
    /\ ev.type = "install"
    /\ ev.reloads = 1
    /\ Len(ev.info.failed) = 2
    /\ \A k \in 1..Len(ev.info.failed) : ev.info.failed[k][2] \in {"exists", "not_in_hub"}

\* C18: every Manager.reload, called by a command or at the end of install,
\* update and delete, invokes each registered reload hook exactly once,
\* whatever it skipped or failed to load and whatever the state of the data
\* directory.
C18_HooksOncePerReload ==
    ev.hooks = ev.reloads

\* C19: when Manager.reload returns, every directory that holds a
\* manifest.json has exactly one entry among succeeded, skipped and failed
\* and no other slug has one; a directory whose config.json does not
\* validate, unless skipped for its marker, is in failed with the load error
\* and not in the list; the list holds exactly the succeeded ones, once each.
C19_ReloadFailureIsolation ==
    ev.type = "reload" =>
        /\ \A s \in Slugs :
              /\ Occurrences(ev.info, s) = IF IsCandidate(disk[s]) THEN 1 ELSE 0
              /\ (IsCandidate(disk[s]) /\ disk[s].config.exists /\ disk[s].broken)
                 => /\ s \notin LoadedSlugs
                    /\ \/ <<s, "updating">> \in Reasons(ev.info.skipped)
                       \/ <<s, "load_error">> \in Reasons(ev.info.failed)
              /\ s \in FailedSlugs(ev.info) => (disk[s].config.exists /\ disk[s].broken)
        /\ LoadedSlugs = SeqToSet(ev.info.succeed)
        /\ Len(packs) = Cardinality(LoadedSlugs)

\* a reload recorded the load failure of one directory and loaded one that
\* comes after it in the scan
C19_Witness ==
    /\ ev.type = "reload"
    /\ \E i, j \in 1..Len(SlugOrder) :
          /\ i < j
          /\ <<SlugOrder[i], "load_error">> \in Reasons(ev.info.failed)
          /\ SlugOrder[j] \in SeqToSet(ev.info.succeed)
          /\ SlugOrder[j] \in LoadedSlugs

\* the step runs Manager.reload
ReloadRuns == ev'.reloads = 1

PackObjects ==
    {packs[k] : k \in 1..Len(packs)} \cup (IF held.slug # "" THEN {held} ELSE {})

Matches(x, q) == Lower(x.slug) = Lower(q) \/ Lower(ManifestName[x.slug]) = Lower(q)

\* the positions of the list a lookup may answer with
Eligible(inc) == {k \in 1..Len(packs) : inc \/ ~Unavailable(packs[k])}

\* C22: find_pack and find_pack_by_slug with include_unavailable = false
\* never return an unavailable pack, in particular none whose marker file
\* exists; with either setting they return the first pack, in list order,
\* among those they scan that matches (find_pack: slug or manifest name equal
\* to the query ignoring case), and none when no scanned pack matches.
C22_Lookup ==
    \A inc \in BOOLEAN :
        /\ \A q \in Queries :
              LET r == find_pack(q, inc)
                  hits == {k \in Eligible(inc) : Matches(packs[k], q)}
              IN  /\ (r = NoPack) <=> (hits = {})
                  /\ r # NoPack => /\ \E k \in hits : packs[k] = r /\ \A j \in hits : k <= j
                                    /\ ~inc => (~Unavailable(r) /\ ~disk[r.slug].flag)
        /\ \A s \in Slugs :
              LET r == find_pack_by_slug(s, inc)
                  hits == {k \in Eligible(inc) : packs[k].slug = s}
              IN  /\ (r = NoPack) <=> (hits = {})
                  /\ r # NoPack => /\ \E k \in hits : packs[k] = r /\ \A j \in hits : k <= j
                                    /\ ~inc => (~Unavailable(r) /\ ~disk[r.slug].flag)

\* while pack a is being updated, a lookup of "B" among the available packs
\* has passed over a (whose name is B) and answered with b (whose slug is b)
C22_Witness ==
    /\ ev.type = "find" /\ ev.queries = <<"B">> /\ ~ev.inc /\ ev.found = "b"
    /\ disk["a"].flag
    /\ find_pack("B", TRUE).slug = "a"

C24_DeleteRemovesManifest ==
    ev.type = "delete" => (disk[ev.found].manifest = 0 /\ ev.found \notin LoadedSlugs)

\* the position of the pack the enable / disable handler resolves q to
Resolved(q) ==
    LET hits == {k \in 1..Len(packs) : Matches(packs[k], q)}
    IN  IF hits = {} THEN 0 ELSE CHOOSE k \in hits : \A j \in hits : k <= j

\* C25: the enable / disable command resolves its queries among all packs
\* of the list, unavailable ones included, and does nothing when one of them
\* names no pack; otherwise every resolved pack gets one entry: a pack whose
\* config.disabled equals the target is skipped and neither the object nor
\* the disk changes; any other pack has config.disabled set to the target and
\* its merged-config cache emptied, and is either recorded as succeeded with
\* config.json holding the target, or, when the write raised, recorded as
\* failed; the packs after a failed one are processed all the same.
C25_EnableDisable ==
    [][ LET qs == ev'.queries
            t == ev'.target
        IN  /\ ev'.type = "not_found"
               => /\ \E i \in 1..Len(qs) : Resolved(qs[i]) = 0
                  /\ packs' = packs /\ disk' = disk
            /\ ev'.type = "set_disabled"
               => /\ \A i \in 1..Len(qs) : Resolved(qs[i]) # 0
                  /\ Len(ev'.info.succeed) + Len(ev'.info.skipped) + Len(ev'.info.failed)
                        = Len(qs)
                  /\ Len(packs') = Len(packs)
                  /\ \A i \in 1..Len(qs) :
                        LET k == Resolved(qs[i])
                            s == packs[k].slug
                        IN  IF packs[k].disabled = t
                            THEN /\ s \in SkippedSlugs(ev'.info)
                                 /\ packs'[k] = packs[k]
                                 /\ disk'[s] = disk[s]
                            ELSE /\ packs'[k].disabled = t
                                 /\ packs'[k].cache = "none"
                                 /\ \/ /\ s \in SeqToSet(ev'.info.succeed)
                                       /\ disk'[s].config.exists
                                       /\ disk'[s].config.disabled = t
                                    \/ /\ s \in FailedSlugs(ev'.info)
                                       /\ disk'[s] = disk[s] ]_vars

\* a disable command on two enabled packs: the write for the first raised,
\* the second was written all the same, and both objects hold the target
C25_Witness ==
    /\ ev.type = "set_disabled" /\ ev.target
    /\ ev.info.failed = <<<<"b", "os_error">>>>
    /\ ev.info.succeed = <<"a">>
    /\ disk["a"].config.disabled /\ ~disk["b"].config.disabled
    /\ \A k \in 1..Len(packs) : packs[k].disabled

\* the stages of a call of update_sticker_pack
CallStages ==
    {"fetch_manifest", "fetch_checksum", "downloading", "move", "remove",
     "manifest", "config", "unflag"}

C29_CancelRecordedAsFailed ==
    ev.type = "cancelled"
    => /\ ops[ev.call[1]].pc = "gather"
       /\ ev.found \in FailedSlugs(ops[ev.call[1]].info)
       /\ disk[ev.found].flag

\* C26: at every moment the number of requests on the wire, over all
\* operations of the process, is at most the configured concurrency limit.
C26_AdmissionControl == Cardinality(InFlight) <= req_concurrency

\* C27: once the gather of an operation has returned or raised, none of the
\* download tasks the operation started is still running.
C27_FanOutJoined ==
    \A o \in OpIds : net.gathers[o] \in {"returned", "raised"} => RunningTasks(o) = {}

\* C28 as stated: a fetch makes at most retry_times attempts; it returns the
\* response of the first attempt that succeeds; it fails exactly when
\* retry_times attempts have failed, and raises the error of the last one.
C28_AtMostRetryTimes ==
    \A o \in OpIds, t \in FetchIds :
        LET k == net.tasks[o][t]
        IN  /\ k.n <= net.retry_times
            /\ k.pc = "ok" => (k.result = <<"response", k.n>> /\ k.failed = k.n - 1)
            /\ k.pc = "error" <=> (k.n # 0 /\ k.failed = net.retry_times)
            /\ k.pc = "error" => k.result = <<"error", net.retry_times>>

\* the attempts a fetch may make: the first one is made whatever retry_times is
AttemptLimit == IF net.retry_times < 1 THEN 1 ELSE net.retry_times

\* C28: a fetch makes at least one and at most max(1, retry_times) attempts;
\* it returns the response of the first attempt that succeeds and makes no
\* further attempt; it fails exactly when max(1, retry_times) attempts have
\* failed, and raises the error of the last one; and every fetch that has
\* started its attempts ends, provided each attempt ends.
C28_BoundedRetry ==
    /\ [](\A o \in OpIds, t \in FetchIds :
            LET k == net.tasks[o][t]
            IN  /\ k.n <= AttemptLimit
                /\ k.pc \in {"attempt", "sleep", "ok", "error"} => k.n >= 1
                /\ k.pc = "ok" => (k.result = <<"response", k.n>> /\ k.failed = k.n - 1)
                /\ k.pc = "error" <=> k.failed = AttemptLimit
                /\ k.pc = "error" => k.result = <<"error", AttemptLimit>>)
    /\ [][\A o \in OpIds, t \in FetchIds :
            net.tasks[o][t].pc \in {"ok", "error"} => net.tasks'[o][t] = net.tasks[o][t]]_vars
    /\ \A o \in OpIds, t \in FetchIds :
          (net.tasks[o][t].pc = "attempt") ~> (net.tasks[o][t].pc \in {"ok", "error"})

\* with retry_times = 3, one fetch has returned the response of its second
\* attempt and another has raised the error of its third
C28_Witness ==
    /\ net.retry_times = 3
    /\ \E o \in OpIds, t \in FetchIds :
          net.tasks[o][t] = [pc |-> "ok", n |-> 2, failed |-> 1, result |-> <<"response", 2>>]
    /\ \E o \in OpIds, t \in FetchIds :
          net.tasks[o][t] = [pc |-> "error", n |-> 3, failed |-> 3, result |-> <<"error", 3>>]

\* the value of an update_source: None, or the type and url of the source
SourceValue(x) == IF x.null THEN <<"none">> ELSE <<x.type.v, x.url.v>>

\* the update_source that precedence gives when l sets it: l's value, and
\* inside a source l's keys first, then d's, then the default
SourceByPrecedence(d, l) ==
    IF l.v.null THEN <<"none">>
    ELSE <<IF l.v.type.set THEN l.v.type.v
           ELSE IF d.set /\ ~d.v.null /\ d.v.type.set THEN d.v.type.v
           ELSE "url",
           l.v.url.v>>

\* the value that precedence gives to field f: l's when l sets it, else d's
\* when d sets it, else the schema default
ByPrecedence(d, l, f) ==
    IF l[f].set THEN l[f].v ELSE IF d[f].set THEN d[f].v ELSE EmptyConfig[f].v

ConfigValue(c) ==
    [update_source |-> SourceValue(c.update_source.v), disabled |-> c.disabled.v,
     commands |-> c.commands.v, extend_commands |-> c.extend_commands.v]

\* C32: the read of merged_config that follows reload, reload_manifest,
\* reload_config, save_config or save_manifest returns the merge of the
\* object's current manifest.default_config and current config.
C32_CacheCoherence ==
    [][(/\ ev.type \in {"reload", "reload_manifest", "reload_config", "save_config",
                        "save_manifest"}
        /\ ev'.type = "merged_config")
       => ConfigValue(ev'.value[1])
            = ConfigValue(deep_merge(pk'.manifest, pk'.config, {"commands"}))]_vars

\* C39: once enable / disable has reported the pack as succeeded or skipped,
\* merged_config.disabled of the pack is false after enable and true after
\* disable, whatever the manifest's default_config sets.
C39_ToggleTakesEffect ==
    (/\ ev.type = "set_disabled"
     /\ ev.info.succeed # <<>> \/ ev.info.skipped # <<>>)
    => merged_config(pk).disabled.v = ev.target

\* C33: when a reload or an enable / disable command changes the value of
\* unavailable of the pack object a handler holds (and observes), the
\* command runs the callbacks of that object.
C33_ObserversNotified ==
    [][(/\ ev'.type \in {"reload", "set_disabled"}
        /\ held.idx # 0
        /\ Unavailable(held) # Unavailable(held)')
       => held.slug \in ev'.notified]_vars

\* the asset files, manifest.json and config.json of a pack directory
Content(d) == [files |-> d.files, manifest |-> d.manifest, config |-> d.config]

\* the stages of update_sticker_pack up to the end of its downloads
StagingStages == {"fetch_manifest", "fetch_checksum", "downloading"}

\* C34: a step that a call of update_sticker_pack takes before all its
\* downloads have succeeded (the step that computes the checksums and the
\* diff and creates the marker included) changes no asset file, manifest.json
\* or config.json of its pack; and the step in which a download fails leaves
\* them as they are, with the marker in place.
C34_StagingBeforeReplace ==
    [][\A c \in Calls :
          LET k == CallOf(c)
          IN  (k.pc \in StagingStages /\ ops'[c[1]].items # ops[c[1]].items
                 /\ c[2] <= Len(ops'[c[1]].items) /\ ops'[c[1]].items[c[2]] # k)
              => /\ Content(disk'[k.slug]) = Content(disk[k.slug])
                 /\ (k.pc = "downloading" /\ ops'[c[1]].items[c[2]].pc = "failed")
                       => disk'[k.slug].flag]_vars

\* a download of an update of an installed pack has failed: the marker is
\* there next to the version 1 files of the pack
C34_Witness ==
    /\ \E o \in OpIds : \E n \in 1..Len(ops[o].info.failed) :
          ops[o].info.failed[n] = <<"a", "fetch_error">>
    /\ disk["a"].flag /\ stale["a"]
    /\ disk["a"].manifest = 1
    /\ \A f \in collect_manifest_files(1) : disk["a"].files[f] = RemoteContent(1, f)

\* C35: after the removal step of a successful update every file of
\* toRemove is gone and no folder under the pack path is empty.
C35_NoEmptyFolderLeft ==
    tree.pc = "done" =>
        /\ tree.toRm \cap tree.files = {}
        /\ \A d \in tree.dirs : ~IsEmptyDir(tree, d)

\* the asset files of a pack directory
AssetsOn(d) == {f \in Assets : FileExists(d, f)}

\* the directory holds exactly the files that the manifest of version v
\* references: each of them is there, and what update_sticker_pack puts in
\* files_should_remove is gone
Complete(d, v) == AssetsOn(d) = collect_manifest_files(v)

\* the calls of update_sticker_pack that have passed the line that writes
\* manifest.json (update.py 185-188)
PastManifest(c) == CallOf(c).pc \in {"config", "unflag"}

\* C36: with one updater per pack, whether the process was interrupted or
\* not: when manifest.json of a pack is the manifest that the source serves
\* now, every file it references is on disk and no other asset is; and a call
\* that has written manifest.json has no move and no removal left
C36_ManifestWrittenLast ==
    /\ \A s \in Slugs :
          (disk[s].manifest # 0 /\ disk[s].manifest = remote[s])
             => Complete(disk[s], disk[s].manifest)
    /\ \A c \in Calls :
          PastManifest(c) =>
             /\ CallOf(c).toMove = {}
             /\ CallOf(c).toRm = {}
             /\ disk[CallOf(c).slug].manifest = CallOf(c).manifest
             /\ Complete(disk[CallOf(c).slug], CallOf(c).manifest)

\* the process ended after update_sticker_pack wrote the manifest of
\* version 2 and before it removed the flag
C36_Witness ==
    /\ running = Down
    /\ disk["a"].manifest = 2
    /\ disk["a"].flag
    /\ remote["a"] = 2
    /\ AssetsOn(disk["a"]) = collect_manifest_files(2)

\* no fetch and no file operation of the operation failed
NothingFailed(info) ==
    /\ info.failed = <<>>
    /\ \A k \in 1..Len(info.skipped) : info.skipped[k][2] # "fetch_manifest_failed"

\* pack s is loaded at the version the source serves, has no marker, and
\* its asset files are those of that version
Converged(s) ==
    /\ \E k \in 1..Len(packs) : packs[k].slug = s /\ packs[k].version = remote[s]
    /\ ~disk[s].flag
    /\ disk[s].manifest = remote[s]
    /\ AssetsOn(disk[s]) = collect_manifest_files(remote[s])

\* the Manager.update that on_startup starts
StartupUpdate == ops[2]

\* C37: when the process ended during an update of the installed pack (or at
\* any other moment), the Manager.update(force=False) that on_startup runs
\* after reload(clear_updating_flags=True), if nothing in it fails, ends with
\* the pack loaded at the remote version, without marker, with the remote
\* manifest on disk and the remote file set as its asset files
C37_RecoveryConverges ==
    [][(/\ StartupUpdate.kind = "update"
        /\ StartupUpdate'.kind = "idle"
        /\ running' # Down
        /\ NothingFailed(ev'.info))
       => \A s \in StartupUpdate.cand : Converged(s)']_vars

\* the process ended after the update from version 1 to version 2 had moved
\* its files and before it wrote manifest.json; the update that on_startup
\* started found, by the checksums, nothing to download, and is about to
\* remove the marker
C37_Witness ==
    /\ StartupUpdate.kind = "update"
    /\ Len(StartupUpdate.items) = 1
    /\ StartupUpdate.items[1].slug = "a"
    /\ StartupUpdate.items[1].pc = "unflag"
    /\ StartupUpdate.items[1].manifest = 2
    /\ StartupUpdate.items[1].toDl = {}
    /\ packs[1].version = 1
    /\ disk["a"].flag
    /\ Complete(disk["a"], 2)

\* the calls of update_sticker_pack that Manager.install made
InstallCalls == {c \in Calls : ops[c[1]].kind = "install"}

\* a call of update_sticker_pack on slug s has not returned yet
Busy(s) ==
    \E c \in Calls : CallOf(c).slug = s /\ CallOf(c).pc \notin {"done", "failed", "cancelled"}

\* the only call on its slug
SoleCall(c) == \A x \in Calls : CallOf(x).slug = CallOf(c).slug => x = c

\* the directory a failed first install leaves: the marker, no manifest.json
OrphanDir(d) == d.dir /\ d.flag /\ d.manifest = 0

Orphan(s) == OrphanDir(disk[s]) /\ ~Busy(s)

\* this step, call c leaves update_sticker_pack by an exception raised inside
\* the marker context
FailsInCtx(c) == InFlagCtx(CallOf(c).pc) /\ CallOf(c)'.pc = "failed"

Listed(info, s) ==
    \/ s \in SeqToSet(info.succeed)
    \/ \E k \in 1..Len(info.skipped) : info.skipped[k][1] = s
    \/ \E k \in 1..Len(info.failed) : info.failed[k][1] = s

\* every Manager.reload leaves an orphan alone and lists it nowhere, and
\* nothing but a removal of the directory ends its being an orphan
OrphanStays ==
    \A s \in Slugs :
       Orphan(s) =>
          /\ Orphan(s)'
          /\ ev'.type = "reload" => ~Listed(ev'.info, s)

PermitHeld(o) == {t \in FetchIds : net.tasks[o][t].pc \in {"attempt", "sleep"}}

\* C40: when the gather of the downloads of a Manager operation has returned
\* or raised, so that the operation goes on to return its result, every
\* permit that its fetches took has been released.
C40_ReturnsWithPermitsReleased ==
    \A o \in OpIds : net.gathers[o] \in {"returned", "raised"} => PermitHeld(o) = {}
====
